---- MODULE Spec2Model ----
(***************************************************************************)
(* gitlab-gemini-cli: the GitLab MCP server (gitlab-mcp-server.js) as a    *)
(* state machine.  A tool call is one invocation of the CallTool handler;  *)
(* every await on a GitLab request is one step, and the upstream answer    *)
(* of each request is chosen nondeterministically.  The merge request's    *)
(* discussions live on the GitLab side and change only through the write   *)
(* requests the server sends.                                              *)
(***************************************************************************)
EXTENDS Integers, Sequences, FiniteSets, TLC

(***************************************************************************)
(* Bounds of the model.                                                    *)
(***************************************************************************)
\* notes that may exist on the merge request
MaxNotes == 2

(***************************************************************************)
(* Text.  A text is a sequence of tokens; a token is one character, or an  *)
(* opaque run of characters without whitespace.                            *)
(***************************************************************************)
BodyA == <<"N", " ", "r">>
BodyB == <<"x">>
Bodies == {BodyA, BodyB}

(***************************************************************************)
(* Identities.  Requests of the server are authored by the token's user.   *)
(***************************************************************************)
BotId == 99
\* somebody else
HumanId == 100

(***************************************************************************)
(* Positions.  A missing field is "" (a path, a SHA) or 0 (a line).        *)
(***************************************************************************)
NoPos ==
    [position_type |-> "", base_sha |-> "", start_sha |-> "", head_sha |-> "",
     new_path |-> "", new_line |-> 0]

NoRefs == [present |-> FALSE, base_sha |-> "", start_sha |-> "", head_sha |-> ""]
FullRefs == [present |-> TRUE, base_sha |-> "b1", start_sha |-> "s1", head_sha |-> "h1"]
NoStartRefs == [present |-> TRUE, base_sha |-> "b1", start_sha |-> "", head_sha |-> "h1"]

(***************************************************************************)
(* Unified diffs.  A diff is a sequence of lines; a line is classified by  *)
(* what findFirstAddedLine tests on it: a hunk header '@@ -a,b +c,d @@'    *)
(* that matches the pattern (with its new_start c), a line starting with   *)
(* '@@' that does not match, a '--- ' / '+++ ' file header, an added, a    *)
(* context or a removed line, or anything else.                            *)
(***************************************************************************)
Hunk(c) == [k |-> "hunk", ns |-> c]
BadHunk == [k |-> "badhunk", ns |-> 0]
Meta == [k |-> "meta", ns |-> 0]
Add == [k |-> "add", ns |-> 0]
Ctx == [k |-> "ctx", ns |-> 0]
Del == [k |-> "del", ns |-> 0]
Other == [k |-> "other", ns |-> 0]

\* JavaScript's null, for a value that is otherwise a line number.
Null == -2

\* a removed line advancing the counter like a context line
RECURSIVE ScanDiff_removedAdvances(_, _, _)
ScanDiff_removedAdvances(lines, i, cur) ==
    IF i > Len(lines) THEN Null
    ELSE LET line == lines[i] IN
         IF line.k = "hunk" THEN ScanDiff_removedAdvances(lines, i + 1, line.ns - 1)
         ELSE IF line.k = "badhunk" THEN ScanDiff_removedAdvances(lines, i + 1, cur)
         ELSE IF cur = Null THEN ScanDiff_removedAdvances(lines, i + 1, cur)
         ELSE IF line.k = "meta" THEN ScanDiff_removedAdvances(lines, i + 1, cur)
         ELSE IF line.k = "add" THEN cur + 1
         ELSE IF line.k \in {"ctx", "del"} THEN ScanDiff_removedAdvances(lines, i + 1, cur + 1)
         ELSE ScanDiff_removedAdvances(lines, i + 1, cur)

\* a '@@' line that does not match resetting the counter
RECURSIVE ScanDiff_badHunkResets(_, _, _)
ScanDiff_badHunkResets(lines, i, cur) ==
    IF i > Len(lines) THEN Null
    ELSE LET line == lines[i] IN
         IF line.k = "hunk" THEN ScanDiff_badHunkResets(lines, i + 1, line.ns - 1)
         ELSE IF line.k = "badhunk" THEN ScanDiff_badHunkResets(lines, i + 1, Null)
         ELSE IF cur = Null THEN ScanDiff_badHunkResets(lines, i + 1, cur)
         ELSE IF line.k = "meta" THEN ScanDiff_badHunkResets(lines, i + 1, cur)
         ELSE IF line.k = "add" THEN cur + 1
         ELSE IF line.k = "ctx" THEN ScanDiff_badHunkResets(lines, i + 1, cur + 1)
         ELSE ScanDiff_badHunkResets(lines, i + 1, cur)

\* findFirstAddedLine's loop from line i on, with currentNew = cur.
RECURSIVE ScanDiff(_, _, _)
ScanDiff(lines, i, cur) ==
    IF i > Len(lines) THEN Null
    ELSE LET line == lines[i] IN
         IF line.k = "hunk" THEN ScanDiff(lines, i + 1, line.ns - 1)
         ELSE IF line.k = "badhunk" THEN ScanDiff(lines, i + 1, cur)
         ELSE IF cur = Null THEN ScanDiff(lines, i + 1, cur)
         ELSE IF line.k = "meta" THEN ScanDiff(lines, i + 1, cur)
         ELSE IF line.k = "add" THEN cur + 1
         ELSE IF line.k = "ctx" THEN ScanDiff(lines, i + 1, cur + 1)
         ELSE ScanDiff(lines, i + 1, cur)

findFirstAddedLine(diffText) ==
    IF diffText = <<>> THEN Null ELSE ScanDiff(diffText, 1, Null)

\* the path of the changed file not looked at
RECURSIVE FirstAnchor_anyPath(_, _, _)
FirstAnchor_anyPath(changes, i, refs) ==
    IF i > Len(changes) THEN NoPos
    ELSE LET newLine == findFirstAddedLine(changes[i].diff)
             newPath == changes[i].new_path
         IN  IF newLine # Null /\ newLine # 0
             THEN [position_type |-> "text", base_sha |-> refs.base_sha,
                   start_sha |-> refs.start_sha, head_sha |-> refs.head_sha,
                   new_path |-> newPath, new_line |-> newLine]
             ELSE FirstAnchor_anyPath(changes, i + 1, refs)

\* The for-loop over changes: the first change with an added line and a path.
RECURSIVE FirstAnchor(_, _, _)
FirstAnchor(changes, i, refs) ==
    IF i > Len(changes) THEN NoPos
    ELSE LET newLine == findFirstAddedLine(changes[i].diff)
             newPath == changes[i].new_path
         IN  IF newLine # Null /\ newLine # 0 /\ newPath # ""
             THEN [position_type |-> "text", base_sha |-> refs.base_sha,
                   start_sha |-> refs.start_sha, head_sha |-> refs.head_sha,
                   new_path |-> newPath, new_line |-> newLine]
             ELSE FirstAnchor(changes, i + 1, refs)

\* start_sha not looked at
RefsUsable_ignoresStart(refs) ==
    refs.present /\ refs.base_sha # "" /\ refs.head_sha # ""

RefsUsable(refs) ==
    refs.present /\ refs.base_sha # "" /\ refs.start_sha # "" /\ refs.head_sha # ""

(***************************************************************************)
(* The merge request under review: its diff_refs and its changed files.    *)
(***************************************************************************)
ChangesAnchored ==
    << [new_path |-> "a.js", diff |-> <<Hunk(1), Del>>],
       [new_path |-> "b.js", diff |-> <<Meta, Hunk(3), Ctx, Del, Add, Add>>] >>
ChangesNoAdd == << [new_path |-> "a.js", diff |-> <<Hunk(1), Ctx, Del>>] >>
ChangesNoPath == << [new_path |-> "", diff |-> <<Hunk(1), Add>>] >>

MrCases ==
    { [refs |-> FullRefs, changes |-> ChangesAnchored],
      [refs |-> FullRefs, changes |-> ChangesNoAdd],
      [refs |-> FullRefs, changes |-> ChangesNoPath],
      [refs |-> NoStartRefs, changes |-> ChangesAnchored],
      [refs |-> NoRefs, changes |-> ChangesAnchored] }

(***************************************************************************)
(* Upstream answers of one request.  "http" is a non-2xx response, "net"   *)
(* a rejected fetch (nothing reached GitLab), "badjson" a 2xx response     *)
(* whose body response.json() cannot parse: GitLab has processed the       *)
(* request, and the call throws.                                           *)
(***************************************************************************)
Ok == [kind |-> "ok", status |-> "200", statusText |-> "OK"]
Http404 == [kind |-> "http", status |-> "404", statusText |-> "Not Found"]
Http500 == [kind |-> "http", status |-> "500", statusText |-> "Internal Server Error"]
NetFail == [kind |-> "net", status |-> "", statusText |-> ""]
BadJson == [kind |-> "badjson", status |-> "200", statusText |-> "OK"]
Outcomes == {Ok, Http404, Http500, NetFail, BadJson}

\* GitLab has carried the request out
Processed(o) == o.kind \in {"ok", "badjson"}

\* the status left out of the message
HttpMessage_noStatus(o) == "GitLab API error"

\* the message of the Error that gitlabApi (or fetch) throws for a failed request
HttpMessage(o) == "GitLab API error: " \o o.status \o " " \o o.statusText
NetMessage == "request failed, reason: socket hang up"
JsonMessage == "invalid json response body"
ErrorMessage(o) ==
    IF o.kind = "http" THEN HttpMessage(o)
    ELSE IF o.kind = "net" THEN NetMessage
    ELSE JsonMessage

(***************************************************************************)
(* Tools.                                                                  *)
(***************************************************************************)
GetTools ==
    {"get_merge_request", "get_merge_request_commits", "get_merge_request_changes",
     "list_merge_requests", "get_issue", "list_issues", "list_project_labels",
     "get_pipeline_jobs", "get_merge_request_pipelines", "get_pipeline",
     "list_pipelines", "get_job_log", "discussion_list",
     "get_merge_request_participants", "list_merge_request_diffs"}
PostTools ==
    {"create_issue_note", "create_merge_request", "retry_pipeline", "cancel_pipeline",
     "trigger_pipeline", "discussion_add_note", "create_mr_discussion_with_position"}
PutTools == {"add_issue_labels", "update_note"}
StagedTools == {"get_file_contents", "create_or_update_file", "create_anchored_discussion_auto"}
ToolNames == GetTools \cup PostTools \cup PutTools \cup StagedTools
UnknownTool == "no_such_tool"

\* tools whose arguments carry a body
BodyTools ==
    {"create_issue_note", "discussion_add_note", "update_note",
     "create_anchored_discussion_auto", "create_mr_discussion_with_position"}

CallerPos ==
    [position_type |-> "text", base_sha |-> "b1", start_sha |-> "s1", head_sha |-> "h1",
     new_path |-> "b.js", new_line |-> 4]

NoArgs ==
    [present |-> FALSE, body |-> <<>>, ref |-> "", labels |-> FALSE,
     discussion_id |-> 0, note_id |-> 0, position |-> NoPos, file_path |-> ""]
SomeArgs == [NoArgs EXCEPT !.present = TRUE]

(***************************************************************************)
(* State.                                                                  *)
(***************************************************************************)
VARIABLES
    mr,            \* the merge request on GitLab: diff_refs and changes
    discussions,   \* its discussions on GitLab, in creation order
    ignoredEnv,    \* the discussion ids of process.env.IGNORED_DISCUSSIONS
    calls,         \* the CallTool invocations, by slot
    probe          \* a helper function under evaluation: its inputs and its result

vars == <<mr, discussions, ignoredEnv, calls, probe>>

\* in-flight invocations are told apart by a slot
Slots == {1, 2}

NoResult == [isError |-> FALSE, content |-> <<>>]
NoJson == [type |-> "none"]

NoProbe == [fn |-> "", done |-> FALSE]

IdleCall ==
    [pc |-> "idle", name |-> "", args |-> NoArgs, sent |-> <<>>, method |-> "",
     ref |-> "", refs |-> NoRefs, position |-> NoPos, err |-> "",
     threw |-> FALSE, thrown |-> "", result |-> NoResult]

(***************************************************************************)
(* GitLab's side of the discussions API.                                   *)
(***************************************************************************)
RECURSIVE NoteCount(_)
NoteCount(ds) == IF ds = <<>> THEN 0 ELSE Len(Head(ds).notes) + NoteCount(Tail(ds))

NewNote(ds, body, position) ==
    [id |-> NoteCount(ds) + 1, body |-> body, author |-> BotId, position |-> position]

\* GitLab refusing a thread whose first note repeats one it already holds
WithDiscussion_dedup(ds, body, position) ==
    IF \E i \in DOMAIN ds : ds[i].notes[1].body = body /\ ds[i].notes[1].position = position
    THEN ds
    ELSE Append(ds, [id |-> Len(ds) + 1, notes |-> <<NewNote(ds, body, position)>>])

\* POST .../discussions and POST .../notes: a new thread of one note
WithDiscussion(ds, body, position) ==
    Append(ds, [id |-> Len(ds) + 1, notes |-> <<NewNote(ds, body, position)>>])

\* POST .../discussions/:id/notes: a reply in thread d
WithReply(ds, d, body) ==
    [ds EXCEPT ![d].notes = Append(@, NewNote(ds, body, NoPos))]

\* PUT .../notes/:note_id: the body of note n replaced
WithUpdatedNote(ds, n, body) ==
    [i \in DOMAIN ds |->
        [ds[i] EXCEPT !.notes =
            [j \in DOMAIN ds[i].notes |->
                IF ds[i].notes[j].id = n
                THEN [ds[i].notes[j] EXCEPT !.body = body]
                ELSE ds[i].notes[j]]]]

HasNote(ds, n) == \E i \in DOMAIN ds : \E j \in DOMAIN ds[i].notes : ds[i].notes[j].id = n

(***************************************************************************)
(* Results of the CallTool handler.                                        *)
(***************************************************************************)
\* { content: [{ type: "text", text: JSON.stringify(value, null, 2) }] }
Success(value) ==
    [isError |-> FALSE,
     content |-> <<[type |-> "text", text |-> [kind |-> "json", str |-> "", json |-> value]]>>]

\* { content: [{ type: "text", text: <the text GitLab answered with> }] }
TextResult(str) ==
    [isError |-> FALSE,
     content |-> <<[type |-> "text", text |-> [kind |-> "string", str |-> str, json |-> NoJson]]>>]

\* the handler's catch: { content: [{type: "text", text: `Error: ${message}`}], isError: true }
Failure(message) ==
    [isError |-> TRUE,
     content |-> <<[type |-> "text",
                    text |-> [kind |-> "string", str |-> "Error: " \o message, json |-> NoJson]]>>]

TypeErrorMessage(name) ==
    "Cannot read properties of undefined (reading '"
        \o (IF name = "add_issue_labels" THEN "labels" ELSE "project_id") \o "')"

\* one request sent to GitLab, with the answer it got
Request(method, path, body, position, o) ==
    [method |-> method, path |-> path, body |-> body, position |-> position, outcome |-> o]

(***************************************************************************)
(* Init: no discussion yet, no call in flight.                             *)
(***************************************************************************)
Init ==
    /\ mr \in MrCases
    /\ discussions = <<>>
    /\ ignoredEnv = {}
    /\ calls = [p \in Slots |-> IdleCall]
    /\ probe = NoProbe

\* the arguments a client may send with a tool call; NoArgs: no arguments at all
ArgsFor(name) ==
    {NoArgs} \cup
    (IF name = "discussion_add_note"
        THEN {[SomeArgs EXCEPT !.body = b, !.discussion_id = d] :
                 b \in Bodies, d \in 0..Len(discussions)}
     ELSE IF name = "update_note"
        THEN {[SomeArgs EXCEPT !.body = b, !.note_id = n] :
                 b \in Bodies, n \in 1..(NoteCount(discussions) + 1)}
     ELSE IF name = "create_mr_discussion_with_position"
        THEN {[SomeArgs EXCEPT !.body = b, !.position = CallerPos] : b \in Bodies}
     ELSE IF name \in BodyTools
        THEN {[SomeArgs EXCEPT !.body = b] : b \in Bodies}
     ELSE IF name = "get_file_contents"
        THEN {[SomeArgs EXCEPT !.ref = r] : r \in {"", "dev"}}
     ELSE IF name = "add_issue_labels"
        THEN {[SomeArgs EXCEPT !.labels = l] : l \in BOOLEAN}
     ELSE {SomeArgs})

\* executeTool resolved: the handler returns its result
HandlerReturn(c, result) == [c EXCEPT !.pc = "done", !.result = result]

\* the error result built without its isError flag
HandlerCatch_noFlag(c, message) ==
    [c EXCEPT !.pc = "done", !.result = [Failure(message) EXCEPT !.isError = FALSE]]

\* executeTool rejected: the handler's catch block builds the error result
HandlerCatch(c, message) == [c EXCEPT !.pc = "done", !.result = Failure(message)]

\* an Error with `message` leaves executeTool
Thrown(c, message) == HandlerCatch([c EXCEPT !.threw = TRUE, !.thrown = message], message)

\* the first await of executeTool(name, args)
FirstPc(name, args) ==
    IF name = "get_file_contents" THEN (IF args.ref = "" THEN "gfc_probe" ELSE "gfc_file")
    ELSE IF name = "create_or_update_file" THEN "cuf_probe"
    ELSE IF name = "create_anchored_discussion_auto" THEN "auto_mr"
    ELSE "single"

\* The CallTool handler up to the first request of executeTool.
Dispatch(c, name, args) ==
    LET c1 == [c EXCEPT !.name = name, !.args = args, !.ref = args.ref] IN
    IF name \notin ToolNames THEN Thrown(c1, "Unknown tool: " \o name)
    ELSE IF ~args.present THEN Thrown(c1, TypeErrorMessage(name))
    ELSE IF name = "add_issue_labels" /\ ~args.labels
        THEN Thrown(c1, "labels array is required")
    ELSE [c1 EXCEPT !.pc = FirstPc(name, args)]

\* new invocations take the lowest free slot
FreeSlot(p) == calls[p].pc = "idle" /\ \A q \in Slots : q < p => calls[q].pc # "idle"

\* A client calls one of `names`.  Calls are handled one at a time (spec.md
\* section 5).  The model follows the merge request until it holds MaxNotes
\* notes.
Call(p, names) ==
    /\ \A q \in Slots : calls[q].pc = "idle"
    /\ NoteCount(discussions) < MaxNotes
    /\ FreeSlot(p)
    /\ \E name \in names :
         \E args \in ArgsFor(name) :
            calls' = [calls EXCEPT ![p] = Dispatch(calls[p], name, args)]
    /\ UNCHANGED <<mr, discussions, ignoredEnv, probe>>

StartCall(p) == Call(p, ToolNames \cup {UnknownTool})

\* the review agent posting its findings
StartReviewCall(p) == Call(p, {"create_anchored_discussion_auto"})

(***************************************************************************)
(* Tools of one request.                                                   *)
(***************************************************************************)
SingleMethod(name) ==
    IF name \in GetTools THEN "GET" ELSE IF name \in PutTools THEN "PUT" ELSE "POST"

\* the explicit position sent to the notes endpoint
SinglePath_positionToNotes(name, args) ==
    IF name = "discussion_add_note"
        THEN (IF args.discussion_id # 0 THEN "/merge_requests/:iid/discussions/:id/notes"
              ELSE "/merge_requests/:iid/notes")
    ELSE IF name = "update_note" THEN "/merge_requests/:iid/notes/" \o ToString(args.note_id)
    ELSE IF name = "create_mr_discussion_with_position" THEN "/merge_requests/:iid/notes"
    ELSE "/" \o name

SinglePath(name, args) ==
    IF name = "discussion_add_note"
        THEN (IF args.discussion_id # 0 THEN "/merge_requests/:iid/discussions/:id/notes"
              ELSE "/merge_requests/:iid/notes")
    ELSE IF name = "update_note" THEN "/merge_requests/:iid/notes/" \o ToString(args.note_id)
    ELSE IF name = "create_mr_discussion_with_position" THEN "/merge_requests/:iid/discussions"
    ELSE "/" \o name

\* what GitLab can answer: it carries out a write on the discussions only if
\* the target exists and the merge request has room for another note
CanProcess(name, args) ==
    IF name = "discussion_add_note"
        THEN /\ NoteCount(discussions) < MaxNotes
             /\ args.discussion_id \in 0..Len(discussions)
    ELSE IF name = "create_mr_discussion_with_position"
        THEN NoteCount(discussions) < MaxNotes
    ELSE IF name = "update_note" THEN HasNote(discussions, args.note_id)
    ELSE TRUE

\* the discussions after GitLab carried out the request of a one-request tool
SingleEffect(name, args) ==
    IF name = "discussion_add_note"
        THEN (IF args.discussion_id # 0
              THEN WithReply(discussions, args.discussion_id, args.body)
              ELSE WithDiscussion(discussions, args.body, NoPos))
    ELSE IF name = "create_mr_discussion_with_position"
        THEN WithDiscussion(discussions, args.body, args.position)
    ELSE IF name = "update_note"
        THEN WithUpdatedNote(discussions, args.note_id, args.body)
    ELSE discussions

\* the value a successful tool serialises
SingleValue(name, ds) ==
    IF name = "discussion_list" THEN [type |-> name, value |-> ds]
    ELSE [type |-> name, value |-> <<>>]

\* the result of a successful tool; get_job_log returns the log as it is
SingleResult(name, ds) ==
    IF name = "get_job_log" THEN TextResult("log") ELSE Success(SingleValue(name, ds))

\* get_job_log reads the response as text: there is no JSON to parse
SingleOutcomes(name) == IF name = "get_job_log" THEN Outcomes \ {BadJson} ELSE Outcomes

SingleRequest(p) ==
    LET c == calls[p] IN
    /\ c.pc = "single"
    /\ \E o \in SingleOutcomes(c.name) :
         /\ Processed(o) => CanProcess(c.name, c.args)
         /\ LET ds == IF Processed(o) THEN SingleEffect(c.name, c.args) ELSE discussions
                c1 == [c EXCEPT !.sent = Append(@,
                          Request(SingleMethod(c.name), SinglePath(c.name, c.args),
                                  IF c.name \in BodyTools THEN c.args.body ELSE <<>>,
                                  c.args.position, o))]
            IN  /\ discussions' = ds
                /\ calls' = [calls EXCEPT ![p] =
                      IF o.kind = "ok" THEN HandlerReturn(c1, SingleResult(c.name, ds))
                      ELSE Thrown(c1, ErrorMessage(o))]
    /\ UNCHANGED <<mr, ignoredEnv, probe>>

\* the transport has the result; the invocation is over
ReturnResult(p) ==
    /\ calls[p].pc = "done"
    /\ calls' = [calls EXCEPT ![p] = IdleCall]
    /\ UNCHANGED <<mr, discussions, ignoredEnv, probe>>

(***************************************************************************)
(* get_file_contents: an optional probe of the default branch, then the    *)
(* file.  A failed probe is swallowed.                                     *)
(***************************************************************************)
GfcProbe(p) ==
    LET c == calls[p] IN
    /\ c.pc = "gfc_probe"
    /\ \E o \in Outcomes :
         calls' = [calls EXCEPT ![p] =
            [c EXCEPT !.sent = Append(@, Request("GET", "/projects/:id", <<>>, NoPos, o)),
                      !.ref = IF o.kind = "ok" THEN "master" ELSE "main",
                      !.pc = "gfc_file"]]
    /\ UNCHANGED <<mr, discussions, ignoredEnv, probe>>

GfcFile(p) ==
    LET c == calls[p] IN
    /\ c.pc = "gfc_file"
    /\ \E o \in Outcomes :
         LET c1 == [c EXCEPT !.sent = Append(@,
                       Request("GET", "/repository/files/:path?ref=" \o c.ref, <<>>, NoPos, o))]
         IN  calls' = [calls EXCEPT ![p] =
                IF o.kind = "ok"
                THEN HandlerReturn(c1, TextResult("content"))
                ELSE Thrown(c1, ErrorMessage(o))]
    /\ UNCHANGED <<mr, discussions, ignoredEnv, probe>>

(***************************************************************************)
(* create_or_update_file: a probe for the file, whose failure means        *)
(* "create", then the write.                                               *)
(***************************************************************************)
CufProbe(p) ==
    LET c == calls[p] IN
    /\ c.pc = "cuf_probe"
    /\ \E o \in Outcomes :
         calls' = [calls EXCEPT ![p] =
            [c EXCEPT !.sent = Append(@,
                          Request("GET", "/repository/files/:path?ref=:branch", <<>>, NoPos, o)),
                      !.method = IF o.kind = "ok" THEN "PUT" ELSE "POST",
                      !.pc = "cuf_write"]]
    /\ UNCHANGED <<mr, discussions, ignoredEnv, probe>>

CufWrite(p) ==
    LET c == calls[p] IN
    /\ c.pc = "cuf_write"
    /\ \E o \in Outcomes :
         LET c1 == [c EXCEPT !.sent = Append(@,
                       Request(c.method, "/repository/files/:path", <<>>, NoPos, o))]
         IN  calls' = [calls EXCEPT ![p] =
                IF o.kind = "ok"
                THEN HandlerReturn(c1, Success([type |-> c.name, value |-> <<>>]))
                ELSE Thrown(c1, ErrorMessage(o))]
    /\ UNCHANGED <<mr, discussions, ignoredEnv, probe>>

(***************************************************************************)
(* create_anchored_discussion_auto.  Whatever is thrown inside the try     *)
(* block, a failed request included, lands in the catch block, which       *)
(* posts the fallback note.                                                *)
(***************************************************************************)
\* no catch block: the error leaves executeTool
Caught_rethrows(c, message) == Thrown(c, message)

\* catch (e): the message is kept for the note
Caught(c, message) == [c EXCEPT !.err = message, !.pc = "auto_note"]

\* the note posted whatever the create-discussion request answered
AfterCreate_alwaysNote(c, o, created) == [c EXCEPT !.err = "", !.pc = "auto_note"]

\* after the create-discussion request: return what was created, or, the
\* request having thrown, go on in the catch block
AfterCreate(c, o, created) ==
    IF o.kind = "ok"
    THEN HandlerReturn(c, Success([type |-> c.name, value |-> <<created>>]))
    ELSE Caught(c, ErrorMessage(o))

AutoGetMr(p) ==
    LET c == calls[p] IN
    /\ c.pc = "auto_mr"
    /\ \E o \in Outcomes :
         LET c1 == [c EXCEPT !.sent = Append(@,
                       Request("GET", "/merge_requests/:iid", <<>>, NoPos, o))]
         IN  calls' = [calls EXCEPT ![p] =
                IF o.kind # "ok" THEN Caught(c1, ErrorMessage(o))
                ELSE IF ~RefsUsable(mr.refs)
                    THEN Caught(c1, "Missing diff_refs for MR; cannot anchor")
                ELSE [c1 EXCEPT !.refs = mr.refs, !.pc = "auto_changes"]]
    /\ UNCHANGED <<mr, discussions, ignoredEnv, probe>>

AutoGetChanges(p) ==
    LET c == calls[p] IN
    /\ c.pc = "auto_changes"
    /\ \E o \in Outcomes :
         LET c1 == [c EXCEPT !.sent = Append(@,
                       Request("GET", "/merge_requests/:iid/changes", <<>>, NoPos, o))]
             position == FirstAnchor(mr.changes, 1, c.refs)
         IN  calls' = [calls EXCEPT ![p] =
                IF o.kind # "ok" THEN Caught(c1, ErrorMessage(o))
                ELSE IF position = NoPos
                    THEN Caught(c1, "Could not determine a valid added line to anchor")
                ELSE [c1 EXCEPT !.position = position, !.pc = "auto_create"]]
    /\ UNCHANGED <<mr, discussions, ignoredEnv, probe>>

AutoCreate(p) ==
    LET c == calls[p] IN
    /\ c.pc = "auto_create"
    /\ \E o \in Outcomes :
         /\ Processed(o) => NoteCount(discussions) < MaxNotes
         /\ LET c1 == [c EXCEPT !.sent = Append(@,
                          Request("POST", "/merge_requests/:iid/discussions",
                                  c.args.body, c.position, o))]
                ds == IF Processed(o)
                      THEN WithDiscussion(discussions, c.args.body, c.position)
                      ELSE discussions
            IN  /\ discussions' = ds
                /\ calls' = [calls EXCEPT ![p] =
                      AfterCreate(c1, o, IF Processed(o) THEN ds[Len(ds)] ELSE NoJson)]
    /\ UNCHANGED <<mr, ignoredEnv, probe>>

\* `${args.body}\n\n_(Auto-anchoring unavailable: ${e.message})_`
FallbackBody(body, message) ==
    body \o <<"\n", "\n", "_(Auto-anchoring unavailable: " \o message \o ")_">>

AutoFallbackNote(p) ==
    LET c == calls[p] IN
    /\ c.pc = "auto_note"
    /\ \E o \in Outcomes :
         /\ Processed(o) => NoteCount(discussions) < MaxNotes
         /\ LET noteBody == FallbackBody(c.args.body, c.err)
                c1 == [c EXCEPT !.sent = Append(@,
                          Request("POST", "/merge_requests/:iid/notes", noteBody, NoPos, o))]
                ds == IF Processed(o)
                      THEN WithDiscussion(discussions, noteBody, NoPos)
                      ELSE discussions
            IN  /\ discussions' = ds
                /\ calls' = [calls EXCEPT ![p] =
                      IF o.kind = "ok"
                      THEN HandlerReturn(c1, Success([type |-> c.name, value |-> <<ds[Len(ds)]>>]))
                      ELSE Thrown(c1, ErrorMessage(o))]
    /\ UNCHANGED <<mr, ignoredEnv, probe>>

(***************************************************************************)
(* The review job starts the server with IGNORED_DISCUSSIONS set to the    *)
(* ids the context build found marked; between calls the variable may name *)
(* any of the merge request's discussions.                                 *)
(***************************************************************************)
SetIgnoredEnv ==
    /\ \A q \in Slots : calls[q].pc = "idle"
    /\ \E ids \in SUBSET (1..Len(discussions)) :
         /\ ids # ignoredEnv
         /\ ignoredEnv' = ids
    /\ UNCHANGED <<mr, discussions, calls, probe>>

Next ==
    \/ \E p \in Slots : StartCall(p)
    \/ \E p \in Slots : SingleRequest(p)
    \/ \E p \in Slots : GfcProbe(p)
    \/ \E p \in Slots : GfcFile(p)
    \/ \E p \in Slots : CufProbe(p)
    \/ \E p \in Slots : CufWrite(p)
    \/ \E p \in Slots : AutoGetMr(p)
    \/ \E p \in Slots : AutoGetChanges(p)
    \/ \E p \in Slots : AutoCreate(p)
    \/ \E p \in Slots : AutoFallbackNote(p)
    \/ \E p \in Slots : ReturnResult(p)

\* One server process: its environment does not change while it runs.
Spec == Init /\ [][Next]_vars

\* A review job: the agent posts findings with create_anchored_discussion_auto,
\* and nothing else writes to the merge request.
NextReview ==
    \/ \E p \in Slots : StartReviewCall(p)
    \/ \E p \in Slots : AutoGetMr(p)
    \/ \E p \in Slots : AutoGetChanges(p)
    \/ \E p \in Slots : AutoCreate(p)
    \/ \E p \in Slots : AutoFallbackNote(p)
    \/ \E p \in Slots : ReturnResult(p)
    \/ SetIgnoredEnv

SpecReview == Init /\ [][NextReview]_vars

(***************************************************************************)
(* The duplicate-protection helpers the server's tests exercise            *)
(* (normalizeIssueSignature, positionsMatch, selectReusableNote).          *)
(***************************************************************************)
IsSpace(t) == t \in {" ", "\t", "\r", "\n"}

\* String.prototype.toLowerCase on one token
Lower(t) ==
    CASE t = "N" -> "n"
      [] t = "R" -> "r"
      [] t = "X" -> "x"
      [] OTHER -> t

RECURSIVE SplitLines(_)
SplitLines(text) ==
    IF \A i \in DOMAIN text : text[i] # "\n" THEN <<text>>
    ELSE LET i == CHOOSE k \in DOMAIN text :
                      text[k] = "\n" /\ \A j \in 1..(k - 1) : text[j] # "\n"
         IN  <<SubSeq(text, 1, i - 1)>> \o SplitLines(SubSeq(text, i + 1, Len(text)))

Blank(line) == \A i \in DOMAIN line : IsSpace(line[i])

RECURSIVE Trim(_)
Trim(line) ==
    IF line = <<>> THEN line
    ELSE IF IsSpace(Head(line)) THEN Trim(Tail(line))
    ELSE IF IsSpace(line[Len(line)]) THEN Trim(SubSeq(line, 1, Len(line) - 1))
    ELSE line

\* every run of whitespace becomes one space
RECURSIVE Collapse(_)
Collapse(line) ==
    IF line = <<>> THEN line
    ELSE IF IsSpace(Head(line))
        THEN (IF Len(line) > 1 /\ IsSpace(line[2]) THEN Collapse(Tail(line))
              ELSE <<" ">> \o Collapse(Tail(line)))
    ELSE <<Lower(Head(line))>> \o Collapse(Tail(line))

\* null: the body has no line with text
NullSignature == <<>>

\* the last line with text taken instead of the first
normalizeIssueSignature_lastLine(body) ==
    LET lines == SplitLines(body)
        meaningful == {i \in DOMAIN lines : ~Blank(lines[i])}
    IN  IF meaningful = {} THEN NullSignature
        ELSE Trim(Collapse(lines[CHOOSE i \in meaningful : \A j \in meaningful : j <= i]))

normalizeIssueSignature(body) ==
    LET lines == SplitLines(body)
        meaningful == {i \in DOMAIN lines : ~Blank(lines[i])}
    IN  IF meaningful = {} THEN NullSignature
        ELSE Trim(Collapse(lines[CHOOSE i \in meaningful : \A j \in meaningful : i <= j]))

\* new_path, falling back to old_path; a field a position does not have is
\* as good as empty
PathOf(p) ==
    IF p.new_path # "" THEN p.new_path
    ELSE IF "old_path" \in DOMAIN p THEN p.old_path ELSE ""

\* new_line if present, else old_line
LineOf(p) ==
    IF p.new_line # 0 THEN p.new_line
    ELSE IF "old_line" \in DOMAIN p THEN p.old_line ELSE 0

HasPosition(p) == PathOf(p) # "" \/ LineOf(p) # 0

\* the line left out of the comparison
positionsMatch_pathOnly(a, b) ==
    /\ HasPosition(a)
    /\ HasPosition(b)
    /\ PathOf(a) = PathOf(b)

\* same file and same line; a note without position matches nothing
positionsMatch(a, b) ==
    /\ HasPosition(a)
    /\ HasPosition(b)
    /\ PathOf(a) = PathOf(b)
    /\ LineOf(a) = LineOf(b)

NoSelection == [kind |-> "null", discussionId |-> 0, noteId |-> 0]

AtPosition(discussion, position) ==
    \E j \in DOMAIN discussion.notes : positionsMatch(discussion.notes[j].position, position)

\* the notes of a thread that the acting identity may reuse for the finding
Reusable(discussion, currentUser, position, signature) ==
    {j \in DOMAIN discussion.notes :
        /\ positionsMatch(discussion.notes[j].position, position)
        /\ discussion.notes[j].author = currentUser
        /\ normalizeIssueSignature(discussion.notes[j].body) = normalizeIssueSignature(signature)}

Last(S) == CHOOSE i \in S : \A j \in S : j <= i
First(S) == CHOOSE i \in S : \A j \in S : i <= j

\* the reuse branch tried before the ignore branch
selectReusableNote_reuseFirst(ds, currentUser, position, signature, ignoredIds) ==
    LET ignored == {i \in DOMAIN ds : AtPosition(ds[i], position) /\ ds[i].id \in ignoredIds}
        reuse == {i \in DOMAIN ds : Reusable(ds[i], currentUser, position, signature) # {}}
    IN  IF reuse # {}
        THEN LET d == ds[First(reuse)]
             IN  [kind |-> "reuse", discussionId |-> d.id,
                  noteId |-> d.notes[Last(Reusable(d, currentUser, position, signature))].id]
        ELSE IF ignored # {}
        THEN [kind |-> "ignored", discussionId |-> ds[First(ignored)].id, noteId |-> 0]
        ELSE NoSelection

\* only the first note of a thread looked at for reuse
selectReusableNote_headOnly(ds, currentUser, position, signature, ignoredIds) ==
    LET ignored == {i \in DOMAIN ds : AtPosition(ds[i], position) /\ ds[i].id \in ignoredIds}
        reuse == {i \in DOMAIN ds : 1 \in Reusable(ds[i], currentUser, position, signature)}
    IN  IF ignored # {}
        THEN [kind |-> "ignored", discussionId |-> ds[First(ignored)].id, noteId |-> 0]
        ELSE IF reuse # {}
        THEN [kind |-> "reuse", discussionId |-> ds[First(reuse)].id,
              noteId |-> ds[First(reuse)].notes[1].id]
        ELSE NoSelection

\* the author of the note not compared with the acting identity
selectReusableNote_anyAuthor(ds, currentUser, position, signature, ignoredIds) ==
    LET ignored == {i \in DOMAIN ds : AtPosition(ds[i], position) /\ ds[i].id \in ignoredIds}
        anyones(d) == UNION {Reusable(d, a, position, signature) : a \in {BotId, HumanId}}
        reuse == {i \in DOMAIN ds : anyones(ds[i]) # {}}
    IN  IF ignored # {}
        THEN [kind |-> "ignored", discussionId |-> ds[First(ignored)].id, noteId |-> 0]
        ELSE IF reuse # {}
        THEN [kind |-> "reuse", discussionId |-> ds[First(reuse)].id,
              noteId |-> ds[First(reuse)].notes[Last(anyones(ds[First(reuse)]))].id]
        ELSE NoSelection

\* the oldest reusable note of the thread taken instead of the most recent
selectReusableNote_oldestNote(ds, currentUser, position, signature, ignoredIds) ==
    LET ignored == {i \in DOMAIN ds : AtPosition(ds[i], position) /\ ds[i].id \in ignoredIds}
        reuse == {i \in DOMAIN ds : Reusable(ds[i], currentUser, position, signature) # {}}
    IN  IF ignored # {}
        THEN [kind |-> "ignored", discussionId |-> ds[First(ignored)].id, noteId |-> 0]
        ELSE IF reuse # {}
        THEN LET d == ds[First(reuse)]
             IN  [kind |-> "reuse", discussionId |-> d.id,
                  noteId |-> d.notes[First(Reusable(d, currentUser, position, signature))].id]
        ELSE NoSelection

selectReusableNote(ds, currentUser, position, signature, ignoredIds) ==
    LET ignored == {i \in DOMAIN ds : AtPosition(ds[i], position) /\ ds[i].id \in ignoredIds}
        reuse == {i \in DOMAIN ds : Reusable(ds[i], currentUser, position, signature) # {}}
    IN  IF ignored # {}
        THEN [kind |-> "ignored", discussionId |-> ds[First(ignored)].id, noteId |-> 0]
        ELSE IF reuse # {}
        THEN LET d == ds[First(reuse)]
             IN  [kind |-> "reuse", discussionId |-> d.id,
                  noteId |-> d.notes[Last(Reusable(d, currentUser, position, signature))].id]
        ELSE NoSelection

(***************************************************************************)
(* selectReusableNote on its own: the inputs are drawn from lists of up to  *)
(* two threads, one of them of up to MaxThreadLen notes, and one step      *)
(* applies the function.                                                   *)
(***************************************************************************)
BodyA2 == <<" ", "n", "\t", " ", "R", " ", "\n", "x">>
Line4 == [NoPos EXCEPT !.new_path = "b.js", !.new_line = 4]
Line5 == [NoPos EXCEPT !.new_path = "b.js", !.new_line = 5]
OtherFile == [NoPos EXCEPT !.new_path = "a.js", !.new_line = 4]

\* notes as discussion_list returns them (ids are given by place)
ProbeNotes ==
    { [body |-> BodyA, author |-> BotId, position |-> Line4],
      [body |-> BodyA2, author |-> BotId, position |-> Line4],
      [body |-> BodyB, author |-> BotId, position |-> Line4],
      [body |-> BodyA, author |-> HumanId, position |-> Line4],
      [body |-> BodyA, author |-> BotId, position |-> Line5],
      [body |-> BodyA, author |-> BotId, position |-> OtherFile],
      [body |-> BodyA, author |-> BotId, position |-> NoPos] }

MaxThreadLen == 2

ProbeThreads == UNION {[1..n -> ProbeNotes] : n \in 1..MaxThreadLen}

\* discussion d of the list, its notes numbered 10 * d + place
ProbeDiscussion(d, thread) ==
    [id |-> d,
     notes |-> [j \in DOMAIN thread |->
                   [id |-> 10 * d + j, body |-> thread[j].body,
                    author |-> thread[j].author, position |-> thread[j].position]]]

ProbeDiscussionLists ==
    {<<>>}
    \cup {<<ProbeDiscussion(1, t)>> : t \in ProbeThreads}
    \cup {<<ProbeDiscussion(1, t), ProbeDiscussion(2, u)>> :
             t \in ProbeThreads, u \in [1..1 -> ProbeNotes]}
    \cup {<<ProbeDiscussion(1, t), ProbeDiscussion(2, u)>> :
             t \in [1..1 -> ProbeNotes], u \in ProbeThreads}

\* the fifth argument: left out (the default, an empty set, applies) or a set
ProbeIgnoredArgs ==
    {[given |-> FALSE, ids |-> {}]} \cup {[given |-> TRUE, ids |-> S] : S \in {{}, {1}, {2}}}

InitSelect ==
    /\ mr = [refs |-> FullRefs, changes |-> ChangesAnchored]
    /\ discussions = <<>>
    /\ ignoredEnv = {}
    /\ calls = [p \in Slots |-> IdleCall]
    /\ \E ds \in ProbeDiscussionLists :
       \E sig \in {BodyA, BodyB} :
       \E ig \in ProbeIgnoredArgs :
          probe = [fn |-> "selectReusableNote", done |-> FALSE, discussions |-> ds,
                   currentUser |-> BotId, position |-> Line4, signature |-> sig,
                   ignoredArg |-> ig, out |-> NoSelection]

ApplySelect ==
    /\ probe.fn = "selectReusableNote"
    /\ ~probe.done
    /\ probe' = [probe EXCEPT
           !.done = TRUE,
           !.out = selectReusableNote(probe.discussions, probe.currentUser, probe.position,
                                      probe.signature,
                                      IF probe.ignoredArg.given THEN probe.ignoredArg.ids ELSE {})]
    /\ UNCHANGED <<mr, discussions, ignoredEnv, calls>>

SpecSelect == InitSelect /\ [][ApplySelect]_vars

(***************************************************************************)
(* Properties.                                                             *)
(***************************************************************************)
IsWrite(r) == r.method # "GET"
Writes(c) == SelectSeq(c.sent, IsWrite)

AutoCall(c) == c.name = "create_anchored_discussion_auto" /\ c.args.present

\* the file and line an auto-anchored finding is aimed at
FindingTarget == FirstAnchor(mr.changes, 1, mr.refs)

\* the discussions as they were when call c started (calls run one at a time,
\* and every POST of c that GitLab carried out appended one discussion)
DiscussionsBefore(c) ==
    SubSeq(discussions, 1,
           Len(discussions)
             - Cardinality({i \in DOMAIN c.sent :
                              c.sent[i].method = "POST" /\ Processed(c.sent[i].outcome)}))

AllAnsweredOk(c) == \A i \in DOMAIN c.sent : c.sent[i].outcome = Ok

\* C1: a create_anchored_discussion_auto call whose finding lands on a
\* discussion listed in IGNORED_DISCUSSIONS sends no write request (no
\* create-discussion, no create-note, no update-note) and returns a
\* non-error "skipped" result.
C1_IgnoredFindingIsSkipped ==
    \A p \in Slots :
        LET c == calls[p] IN
        (/\ c.pc # "idle"
         /\ AutoCall(c)
         /\ selectReusableNote(discussions, BotId, FindingTarget, c.args.body,
                               ignoredEnv).kind = "ignored")
        => /\ Writes(c) = <<>>
           /\ c.pc = "done" => ~c.result.isError

\* C2: when the same finding is reported again (a note of the acting identity
\* with the same signature already sits at the resolved position, and the
\* thread is not ignored), the call sends exactly one write, an update of
\* that note, and creates no discussion or note.
C2_RepeatedFindingUpdatesNote ==
    \A p \in Slots :
        LET c == calls[p]
            sel == selectReusableNote(DiscussionsBefore(c), BotId, FindingTarget,
                                      c.args.body, ignoredEnv)
        IN  (c.pc = "done" /\ AutoCall(c) /\ AllAnsweredOk(c) /\ sel.kind = "reuse")
            => /\ Len(Writes(c)) = 1
               /\ Writes(c)[1].method = "PUT"
               /\ Writes(c)[1].path = "/merge_requests/:iid/notes/" \o ToString(sel.noteId)
               /\ Len(discussions) = Len(DiscussionsBefore(c))
               /\ ~c.result.isError

(***************************************************************************)
(* Properties of selectReusableNote (under SpecSelect).                    *)
(***************************************************************************)
ProbeDone == probe.fn = "selectReusableNote" /\ probe.done
ProbeIgnored == IF probe.ignoredArg.given THEN probe.ignoredArg.ids ELSE {}

\* note j of discussion i sits at the target position
ProbeAtTarget(i, j) ==
    LET n == probe.discussions[i].notes[j] IN
    /\ n.position # NoPos
    /\ n.position.new_path = probe.position.new_path
    /\ n.position.new_line = probe.position.new_line

\* ... and is the acting identity's, with the finding's signature
ProbeReusable(i, j) ==
    LET n == probe.discussions[i].notes[j] IN
    /\ ProbeAtTarget(i, j)
    /\ n.author = probe.currentUser
    /\ normalizeIssueSignature(n.body) = normalizeIssueSignature(probe.signature)

ProbeIgnoredAtTarget(i) ==
    /\ probe.discussions[i].id \in ProbeIgnored
    /\ \E j \in DOMAIN probe.discussions[i].notes : ProbeAtTarget(i, j)

\* C3: a discussion with a note at the target position whose id is in
\* ignoredIds makes selectReusableNote return {ignored: true, discussionId},
\* also when that discussion holds a reusable note.
C3_IgnoredWinsOverReuse ==
    ProbeDone =>
        \A i \in DOMAIN probe.discussions :
            ProbeIgnoredAtTarget(i)
            => /\ probe.out.kind = "ignored"
               /\ probe.out.noteId = 0
               /\ \E k \in DOMAIN probe.discussions :
                     /\ ProbeIgnoredAtTarget(k)
                     /\ probe.out.discussionId = probe.discussions[k].id

C3_Witness ==
    /\ ProbeDone
    /\ probe.out.kind = "ignored"
    /\ \E i \in DOMAIN probe.discussions :
          /\ ProbeIgnoredAtTarget(i)
          /\ probe.out.discussionId = probe.discussions[i].id
          /\ \E j \in DOMAIN probe.discussions[i].notes : ProbeReusable(i, j)

\* the selection names a reusable note of a discussion that is not ignored
ProbeSelectsReusable ==
    /\ probe.out.kind = "reuse"
    /\ \E i \in DOMAIN probe.discussions :
          /\ probe.discussions[i].id = probe.out.discussionId
          /\ probe.discussions[i].id \notin ProbeIgnored
          /\ \E j \in DOMAIN probe.discussions[i].notes :
                /\ ProbeReusable(i, j)
                /\ probe.discussions[i].notes[j].id = probe.out.noteId

C5_NullExactlyWhenNothingMatches ==
    ProbeDone =>
        /\ probe.out = NoSelection
           <=> /\ \A i \in DOMAIN probe.discussions : ~ProbeIgnoredAtTarget(i)
               /\ \A i \in DOMAIN probe.discussions :
                     \A j \in DOMAIN probe.discussions[i].notes : ~ProbeReusable(i, j)
        /\ probe.out.kind = "reuse" => ProbeSelectsReusable

\* null although the same signature sits on another line and under another
\* author at the target position
C5_Witness ==
    /\ ProbeDone
    /\ probe.out = NoSelection
    /\ \E i \in DOMAIN probe.discussions :
          \E j \in DOMAIN probe.discussions[i].notes :
             LET n == probe.discussions[i].notes[j] IN
             /\ ProbeAtTarget(i, j)
             /\ n.author # probe.currentUser
             /\ normalizeIssueSignature(n.body) = normalizeIssueSignature(probe.signature)
    /\ \E i \in DOMAIN probe.discussions :
          \E j \in DOMAIN probe.discussions[i].notes :
             LET n == probe.discussions[i].notes[j] IN
             /\ n.position # NoPos
             /\ ~ProbeAtTarget(i, j)
             /\ n.author = probe.currentUser
             /\ normalizeIssueSignature(n.body) = normalizeIssueSignature(probe.signature)

(***************************************************************************)
(* Properties of the tool calls (under Spec).                              *)
(***************************************************************************)
DiscussionsPath == "/merge_requests/:iid/discussions"
NotesPath == "/merge_requests/:iid/notes"

OkWrites(c) == {i \in DOMAIN Writes(c) : Writes(c)[i].outcome = Ok}

NoAnchor ==
    \/ ~mr.refs.present
    \/ mr.refs.base_sha = ""
    \/ mr.refs.start_sha = ""
    \/ mr.refs.head_sha = ""
    \/ \A i \in DOMAIN mr.changes : findFirstAddedLine(mr.changes[i].diff) = Null

NoAnchorReason ==
    IF ~mr.refs.present \/ mr.refs.base_sha = "" \/ mr.refs.start_sha = "" \/ mr.refs.head_sha = ""
    THEN "Missing diff_refs for MR; cannot anchor"
    ELSE "Could not determine a valid added line to anchor"

\* a finished auto call that found no anchor, its reads answered
UnanchoredCall(c) ==
    /\ c.pc = "done"
    /\ AutoCall(c)
    /\ NoAnchor
    /\ \A i \in DOMAIN c.sent : c.sent[i].method = "GET" => c.sent[i].outcome = Ok

\* no create-discussion request, and one note of the finding's text plus
\* the reason
PostsFallbackNote(c) ==
    /\ \A i \in DOMAIN c.sent : c.sent[i].path # DiscussionsPath
    /\ Len(Writes(c)) = 1
    /\ Writes(c)[1].method = "POST"
    /\ Writes(c)[1].path = NotesPath
    /\ Writes(c)[1].position = NoPos
    /\ Writes(c)[1].body =
          c.args.body \o <<"\n", "\n", "_(Auto-anchoring unavailable: " \o NoAnchorReason \o ")_">>

\* C7 as claimed: without an anchor the call sends no create-discussion
\* request, posts one unanchored note (the finding's text and the reason)
\* and returns a non-error result.
C7_FallbackNeverAnError ==
    \A p \in Slots :
        UnanchoredCall(calls[p]) => (PostsFallbackNote(calls[p]) /\ ~calls[p].result.isError)

\* C7, amended: without an anchor the call sends no create-discussion
\* request and posts one unanchored note (the finding's text and the
\* reason); it returns a non-error result unless the note request itself
\* fails, and then the error result of that failure.
C7_FallbackNoteUnlessNoteFails ==
    \A p \in Slots :
        LET c == calls[p] IN
        UnanchoredCall(c) =>
            /\ PostsFallbackNote(c)
            /\ Writes(c)[1].outcome = Ok => ~c.result.isError
            /\ Writes(c)[1].outcome # Ok =>
                  c.result = Failure(ErrorMessage(Writes(c)[1].outcome))

\* diff_refs without start_sha: the note is on the merge request
C7_Witness ==
    \E p \in Slots :
        LET c == calls[p] IN
        /\ UnanchoredCall(c)
        /\ mr.refs.present /\ mr.refs.start_sha = ""
        /\ ~c.result.isError
        /\ \E i \in DOMAIN discussions :
              /\ discussions[i].notes[1].position = NoPos
              /\ discussions[i].notes[1].body = Writes(c)[1].body

Failed(r) == r.outcome # Ok

\* C8 as claimed: in create_anchored_discussion_auto a request that fails
\* with a transport or HTTP error is the last request of the call, and the
\* call returns an error result carrying the error's message.
C8_FailureEndsTheCall ==
    \A p \in Slots :
        LET c == calls[p] IN
        (c.pc = "done" /\ AutoCall(c)) =>
            \A i \in DOMAIN c.sent :
                c.sent[i].outcome.kind \in {"http", "net"}
                => /\ i = Len(c.sent)
                   /\ c.result = Failure(ErrorMessage(c.sent[i].outcome))

\* C8, amended: in create_anchored_discussion_auto no request is sent twice.
\* A failed read of the merge request or of its changes, and a failed
\* create-discussion request, are followed by exactly one more request, the
\* fallback note, whose body carries the error's message; the call then
\* returns the note unless the note request fails.  A failed note request
\* is the last request, and the call returns an error result carrying its
\* message.
C8_FailureFallsBackOnce ==
    \A p \in Slots :
        LET c == calls[p] IN
        AutoCall(c) =>
            /\ \A i, j \in DOMAIN c.sent :
                  (c.sent[i].method = c.sent[j].method /\ c.sent[i].path = c.sent[j].path)
                  => i = j
            /\ c.pc = "done" =>
                  \A i \in DOMAIN c.sent :
                      Failed(c.sent[i]) =>
                          IF c.sent[i].path = NotesPath
                          THEN /\ i = Len(c.sent)
                               /\ c.result = Failure(ErrorMessage(c.sent[i].outcome))
                          ELSE /\ i + 1 = Len(c.sent)
                               /\ c.sent[i + 1].method = "POST"
                               /\ c.sent[i + 1].path = NotesPath
                               /\ c.sent[i + 1].body =
                                     c.args.body \o
                                       <<"\n", "\n",
                                         "_(Auto-anchoring unavailable: "
                                            \o ErrorMessage(c.sent[i].outcome) \o ")_">>
                               /\ ~Failed(c.sent[i + 1]) => ~c.result.isError

\* the read of the merge request rejected, the note posted, no error returned
C8_Witness ==
    \E p \in Slots :
        LET c == calls[p] IN
        /\ c.pc = "done"
        /\ AutoCall(c)
        /\ Len(c.sent) = 2
        /\ c.sent[1].outcome.kind = "http"
        /\ c.sent[2].outcome = Ok
        /\ ~c.result.isError

\* some request of call p can be answered
Step(p) ==
    \/ SingleRequest(p)
    \/ GfcProbe(p)
    \/ GfcFile(p)
    \/ CufProbe(p)
    \/ CufWrite(p)
    \/ AutoGetMr(p)
    \/ AutoGetChanges(p)
    \/ AutoCreate(p)
    \/ AutoFallbackNote(p)

Pcs ==
    {"idle", "single", "gfc_probe", "gfc_file", "cuf_probe", "cuf_write",
     "auto_mr", "auto_changes", "auto_create", "auto_note", "done"}

\* C9: whatever the tool name, the arguments and the answers of GitLab, the
\* CallTool handler ends with a result of one text item and never with an
\* exception; the result has isError: true and the text 'Error: <message>'
\* exactly when executeTool threw, which an unknown tool name makes it do.
C9_HandlerAlwaysReturnsResult ==
    \A p \in Slots :
        LET c == calls[p] IN
        /\ c.pc \in Pcs
        /\ c.pc \notin {"idle", "done"} => ENABLED Step(p)
        /\ c.pc = "done" =>
              /\ Len(c.result.content) = 1
              /\ c.result.content[1].type = "text"
              /\ c.result.isError <=> c.threw
              /\ c.threw => /\ c.result.content[1].text.kind = "string"
                            /\ c.result.content[1].text.str = "Error: " \o c.thrown
              /\ c.name \notin ToolNames =>
                    /\ c.result.isError
                    /\ c.result.content[1].text.str = "Error: Unknown tool: " \o c.name

C9_Witness ==
    \E p \in Slots :
        LET c == calls[p] IN
        /\ c.pc = "done"
        /\ c.name = UnknownTool
        /\ c.result.isError
        /\ c.sent = <<>>

StatusText(o) == "Error: GitLab API error: " \o o.status \o " " \o o.statusText

\* C10 as claimed: a call one of whose requests got a non-2xx response
\* returns isError: true with the status and status text, and sends nothing
\* after that request.
C10_Non2xxAlwaysAnError ==
    \A p \in Slots :
        LET c == calls[p] IN
        c.pc = "done" =>
            \A i \in DOMAIN c.sent :
                c.sent[i].outcome.kind = "http"
                => /\ i = Len(c.sent)
                   /\ c.result.isError
                   /\ c.result.content[1].text.str = StatusText(c.sent[i].outcome)

\* the requests whose failure a tool handles itself: the default-branch
\* probe of get_file_contents, the existence probe of create_or_update_file
\* and what create_anchored_discussion_auto sends inside its try block
Swallowed(c, i) ==
    \/ c.name = "get_file_contents" /\ i = 1 /\ c.sent[i].path = "/projects/:id"
    \/ c.name = "create_or_update_file" /\ i = 1 /\ c.sent[i].method = "GET"
    \/ c.name = "create_anchored_discussion_auto" /\ c.sent[i].path # NotesPath

\* C10, amended: a request that got a non-2xx response is never sent again.
\* Unless it is one of the requests whose failure the tool handles itself,
\* it is the last request of the call, and the result has isError: true
\* and the text 'Error: GitLab API error: <status> <statusText>'.
C10_Non2xxEndsCallUnlessHandled ==
    \A p \in Slots :
        LET c == calls[p] IN
        \A i \in DOMAIN c.sent :
            c.sent[i].outcome.kind = "http" =>
                /\ \A j \in DOMAIN c.sent :
                      (c.sent[j].method = c.sent[i].method /\ c.sent[j].path = c.sent[i].path)
                      => j = i
                /\ ~Swallowed(c, i) =>
                      /\ c.pc = "done"
                      /\ i = Len(c.sent)
                      /\ c.result.isError
                      /\ c.result.content[1].text.str = StatusText(c.sent[i].outcome)

C10_Witness ==
    \E p \in Slots :
        LET c == calls[p] IN
        /\ c.pc = "done"
        /\ c.name = "get_file_contents"
        /\ Len(c.sent) = 2
        /\ c.sent[1].outcome = Http500
        /\ c.sent[2].outcome = Http404
        /\ c.result.isError
        /\ c.result.content[1].text.str = "Error: GitLab API error: 404 Not Found"

(***************************************************************************)
(* findFirstAddedLine on its own: the diff is any text of up to MaxDiffLen *)
(* lines, and one step applies the function.                               *)
(***************************************************************************)
MaxDiffLen == 5

DiffLines == {Hunk(1), Hunk(3), BadHunk, Meta, Add, Ctx, Del, Other}

ProbeDiffs == UNION {[1..n -> DiffLines] : n \in 0..MaxDiffLen}

InitDiff ==
    /\ mr = [refs |-> FullRefs, changes |-> ChangesAnchored]
    /\ discussions = <<>>
    /\ ignoredEnv = {}
    /\ calls = [p \in Slots |-> IdleCall]
    /\ \E d \in ProbeDiffs :
          probe = [fn |-> "findFirstAddedLine", done |-> FALSE, diffText |-> d, out |-> Null]

ApplyDiff ==
    /\ probe.fn = "findFirstAddedLine"
    /\ ~probe.done
    /\ probe' = [probe EXCEPT !.done = TRUE, !.out = findFirstAddedLine(probe.diffText)]
    /\ UNCHANGED <<mr, discussions, ignoredEnv, calls>>

SpecDiff == InitDiff /\ [][ApplyDiff]_vars

DiffDone == probe.fn = "findFirstAddedLine" /\ probe.done

\* every line that starts with '@@' is a hunk header '@@ -a[,b] +c[,d] @@'
UnifiedDiff(d) == \A i \in DOMAIN d : d[i].k # "badhunk"

\* the added lines of the hunks of d
AddedInHunks(d) ==
    {j \in DOMAIN d : d[j].k = "add" /\ \E h \in 1..(j - 1) : d[h].k = "hunk"}

\* the header of the hunk that line j is in
HunkOf(d, j) ==
    CHOOSE h \in 1..(j - 1) :
        d[h].k = "hunk" /\ \A g \in (h + 1)..(j - 1) : d[g].k # "hunk"

\* C11: for every unified diff, findFirstAddedLine returns the new_start of
\* the hunk that holds the first added line plus the number of context
\* lines before that line in the hunk (removed lines and '--- ' / '+++ '
\* lines do not count, hunks without an addition are passed over), and it
\* returns null exactly when the text is empty or no hunk has an added line.
C11_FirstAddedLineOfDiff ==
    (DiffDone /\ UnifiedDiff(probe.diffText)) =>
        LET d == probe.diffText
            added == AddedInHunks(d)
        IN  /\ probe.out = Null <=> (d = <<>> \/ added = {})
            /\ added # {} =>
                  LET j == CHOOSE a \in added : \A b \in added : a <= b
                      h == HunkOf(d, j)
                  IN  probe.out =
                         d[h].ns + Cardinality({i \in (h + 1)..(j - 1) : d[i].k = "ctx"})

\* '@@ -1,2 +1,3 @@', ' context', '-old', '+new1', '+new2' gives 2
C11_Witness ==
    /\ DiffDone
    /\ probe.diffText = <<Hunk(1), Ctx, Del, Add, Add>>
    /\ probe.out = 2

(***************************************************************************)
(* create_mr_discussion_with_position: a client that posts at positions it *)
(* computed itself, over several review jobs.                              *)
(***************************************************************************)
StartPositionCall(p) == Call(p, {"create_mr_discussion_with_position"})

NextPosition ==
    \/ \E p \in Slots : StartPositionCall(p)
    \/ \E p \in Slots : SingleRequest(p)
    \/ \E p \in Slots : ReturnResult(p)
    \/ SetIgnoredEnv

SpecPosition == Init /\ [][NextPosition]_vars

PositionCall(c) == c.name = "create_mr_discussion_with_position" /\ c.args.present

\* C12: create_mr_discussion_with_position, called with arguments, sends
\* exactly one request, the create-discussion request with the caller's
\* body and position as they are, whatever discussions exist and whatever
\* the ignored set holds; it sends no read, no update-note and no fallback
\* note, and what GitLab creates is a new discussion of that body at that
\* position.
C12_PositionCallCreatesUnconditionally ==
    \A p \in Slots :
        LET c == calls[p] IN
        PositionCall(c) =>
            /\ Len(c.sent) <= 1
            /\ c.pc = "done" => Len(c.sent) = 1
            /\ \A i \in DOMAIN c.sent :
                  /\ c.sent[i].method = "POST"
                  /\ c.sent[i].path = "/merge_requests/:iid/discussions"
                  /\ c.sent[i].body = c.args.body
                  /\ c.sent[i].position = c.args.position
            /\ (c.pc = "done" /\ c.sent[1].outcome # Ok) => c.result.isError
            /\ (c.pc = "done" /\ Processed(c.sent[1].outcome)) =>
                  LET d == discussions[Len(discussions)] IN
                  /\ Len(d.notes) = 1
                  /\ d.notes[1].body = c.args.body
                  /\ d.notes[1].position = c.args.position

\* a second discussion of the same body at the same position, the first one
\* being in the ignored set
C12_Witness ==
    \E p \in Slots :
        LET c == calls[p] IN
        /\ PositionCall(c)
        /\ c.pc = "done"
        /\ c.sent[1].outcome = Ok
        /\ Len(discussions) = 2
        /\ 1 \in ignoredEnv
        /\ discussions[1].notes[1].body = c.args.body
        /\ discussions[1].notes[1].position = c.args.position
        /\ discussions[2].notes[1].body = c.args.body
        /\ discussions[2].notes[1].position = c.args.position

(***************************************************************************)
(* create_anchored_discussion_auto called with file_path, as the reviewer  *)
(* skill tells the agent to, on a merge request with additions in two      *)
(* files.                                                                  *)
(***************************************************************************)
ChangesTwoAdded ==
    << [new_path |-> "a.js", diff |-> <<Hunk(1), Add>>],
       [new_path |-> "b.js", diff |-> <<Hunk(3), Ctx, Add>>] >>

InitFile ==
    /\ mr = [refs |-> FullRefs, changes |-> ChangesTwoAdded]
    /\ discussions = <<>>
    /\ ignoredEnv = {}
    /\ calls = [p \in Slots |-> IdleCall]
    /\ probe = NoProbe

FileArgs ==
    {[SomeArgs EXCEPT !.body = b, !.file_path = f] : b \in Bodies, f \in {"a.js", "b.js"}}

StartFileCall(p) ==
    /\ \A q \in Slots : calls[q].pc = "idle"
    /\ NoteCount(discussions) < MaxNotes
    /\ FreeSlot(p)
    /\ \E args \in FileArgs :
          calls' = [calls EXCEPT ![p] =
                       Dispatch(calls[p], "create_anchored_discussion_auto", args)]
    /\ UNCHANGED <<mr, discussions, ignoredEnv, probe>>

NextFile ==
    \/ \E p \in Slots : StartFileCall(p)
    \/ \E p \in Slots : AutoGetMr(p)
    \/ \E p \in Slots : AutoGetChanges(p)
    \/ \E p \in Slots : AutoCreate(p)
    \/ \E p \in Slots : AutoFallbackNote(p)
    \/ \E p \in Slots : ReturnResult(p)

SpecFile == InitFile /\ [][NextFile]_vars

\* the first added line of the diff of the changed file `path`
FirstAddedLineIn(path) ==
    LET i == CHOOSE k \in DOMAIN mr.changes : mr.changes[k].new_path = path
    IN  findFirstAddedLine(mr.changes[i].diff)

\* C13: when file_path is passed, every create-discussion request of the
\* call is anchored in that file, at the first added line of its diff.
C13_AnchoredInGivenFile ==
    \A p \in Slots :
        LET c == calls[p] IN
        (AutoCall(c) /\ c.args.file_path # "") =>
            \A i \in DOMAIN c.sent :
                c.sent[i].path = "/merge_requests/:iid/discussions" =>
                    /\ c.sent[i].position.new_path = c.args.file_path
                    /\ c.sent[i].position.new_line = FirstAddedLineIn(c.args.file_path)

(***************************************************************************)
(* ignoredDiscussionSet: the helper that reads IGNORED_DISCUSSIONS.  The   *)
(* value of the variable is a text of JSON tokens, or the variable is not  *)
(* set.  The test changes the variable between calls.                      *)
(***************************************************************************)
MaxEnvLen == 4

EnvIds == {"d1", "d2"}
Quoted(id) == "\"" \o id \o "\""
EnvTokens == {"[", "]", ",", "x"} \cup {Quoted(id) : id \in EnvIds}

UnsetEnv == [set |-> FALSE, value |-> <<>>]
EnvValues ==
    {UnsetEnv} \cup
    {[set |-> TRUE, value |-> v] : v \in UNION {[1..n -> EnvTokens] : n \in 0..MaxEnvLen}}

\* JSON.stringify of an array of ids
RECURSIVE JsonItems(_)
JsonItems(list) ==
    IF list = <<>> THEN <<>>
    ELSE IF Len(list) = 1 THEN <<Quoted(list[1])>>
    ELSE <<Quoted(list[1]), ",">> \o JsonItems(Tail(list))

JsonStringify(list) == <<"[">> \o JsonItems(list) \o <<"]">>

\* JSON.parse of a text, for the arrays of strings: the text is '[' ... ']'
\* with string tokens separated by commas
IsJsonArray(text) ==
    /\ Len(text) >= 2
    /\ text[1] = "["
    /\ text[Len(text)] = "]"
    /\ LET inner == SubSeq(text, 2, Len(text) - 1) IN
       \/ inner = <<>>
       \/ /\ Len(inner) % 2 = 1
          /\ \A i \in DOMAIN inner :
                IF i % 2 = 1 THEN \E id \in EnvIds : inner[i] = Quoted(id)
                ELSE inner[i] = ","

JsonParseIds(text) ==
    {id \in EnvIds : \E i \in DOMAIN text : i % 2 = 0 /\ text[i] = Quoted(id)}

\* the set of the first call kept for the later ones
ignoredDiscussionSet_cached(pr) ==
    IF pr.n > 0 THEN [ids |-> pr.out, threw |-> FALSE]
    ELSE IF pr.env.set /\ IsJsonArray(pr.env.value)
        THEN [ids |-> JsonParseIds(pr.env.value), threw |-> FALSE]
    ELSE [ids |-> {}, threw |-> FALSE]

\* pr: the state the helper runs in (pr.env is process.env.IGNORED_DISCUSSIONS)
ignoredDiscussionSet(pr) ==
    IF pr.env.set /\ IsJsonArray(pr.env.value)
    THEN [ids |-> JsonParseIds(pr.env.value), threw |-> FALSE]
    ELSE [ids |-> {}, threw |-> FALSE]

MaxEnvCalls == 2

\* the values the variable is set to between calls
EnvChanges ==
    {UnsetEnv,
     [set |-> TRUE, value |-> JsonStringify(<<"d1", "d2">>)],
     [set |-> TRUE, value |-> JsonStringify(<<"d2">>)],
     [set |-> TRUE, value |-> <<"x">>]}

InitEnv ==
    /\ mr = [refs |-> FullRefs, changes |-> ChangesAnchored]
    /\ discussions = <<>>
    /\ ignoredEnv = {}
    /\ calls = [p \in Slots |-> IdleCall]
    /\ \E e \in EnvValues :
          probe = [fn |-> "ignoredDiscussionSet", env |-> e, n |-> 0, fresh |-> FALSE,
                   out |-> {}, last |-> {}, threw |-> FALSE]

SetEnv ==
    /\ probe.fn = "ignoredDiscussionSet"
    /\ \E e \in EnvChanges :
          /\ e # probe.env
          /\ probe' = [probe EXCEPT !.env = e, !.fresh = FALSE]
    /\ UNCHANGED <<mr, discussions, ignoredEnv, calls>>

ApplyIgnored ==
    /\ probe.fn = "ignoredDiscussionSet"
    /\ probe.n < MaxEnvCalls
    /\ LET r == ignoredDiscussionSet(probe) IN
       probe' = [probe EXCEPT !.n = @ + 1, !.fresh = TRUE, !.last = probe.out,
                              !.out = r.ids, !.threw = r.threw]
    /\ UNCHANGED <<mr, discussions, ignoredEnv, calls>>

NextEnv == SetEnv \/ ApplyIgnored

SpecEnv == InitEnv /\ [][NextEnv]_vars

IdLists == UNION {[1..n -> EnvIds] : n \in 0..MaxEnvLen}
Range(list) == {list[i] : i \in DOMAIN list}

\* C14: ignoredDiscussionSet never throws; when IGNORED_DISCUSSIONS holds
\* the JSON text of an array of ids the result is the set of exactly these
\* ids, and when the variable is missing or its value is no such text the
\* result is empty; the value read is the one the variable has at the call.
C14_IgnoredSetFromEnvironment ==
    (probe.fn = "ignoredDiscussionSet" /\ probe.n > 0) =>
        /\ ~probe.threw
        /\ probe.fresh =>
              IF probe.env.set /\ \E list \in IdLists : probe.env.value = JsonStringify(list)
              THEN \E list \in IdLists :
                      /\ probe.env.value = JsonStringify(list)
                      /\ probe.out = Range(list)
              ELSE probe.out = {}

\* '["d1","d2"]' read by a second call, the first having read something else
C14_Witness ==
    /\ probe.fn = "ignoredDiscussionSet"
    /\ probe.n = 2
    /\ probe.fresh
    /\ probe.env = [set |-> TRUE, value |-> <<"[", "\"d1\"", ",", "\"d2\"", "]">>]
    /\ probe.out = {"d1", "d2"}
    /\ probe.last = {}

(***************************************************************************)
(* build-mr-context.js: the ignore markers.  A text is a sequence of       *)
(* tokens as above; the words of a marker are tokens of their own.         *)
(***************************************************************************)
ToLowerCase(t) ==
    CASE t = "@Gemini" -> "@gemini"
      [] t = "IGNORE" -> "ignore"
      [] OTHER -> Lower(t)

\* the patterns without their i flag
IGNORE_PATTERNS_caseSensitive ==
    << [kind |-> "words", first |-> "@gemini", ignoreCase |-> FALSE, global |-> FALSE],
       [kind |-> "words", first |-> "/gemini", ignoreCase |-> FALSE, global |-> FALSE],
       [kind |-> "comment", first |-> "<!--", ignoreCase |-> FALSE, global |-> FALSE] >>

\* the patterns with a g flag
IGNORE_PATTERNS_global ==
    << [kind |-> "words", first |-> "@gemini", ignoreCase |-> TRUE, global |-> TRUE],
       [kind |-> "words", first |-> "/gemini", ignoreCase |-> TRUE, global |-> TRUE],
       [kind |-> "comment", first |-> "<!--", ignoreCase |-> TRUE, global |-> TRUE] >>

\* /@gemini\s+ignore/i, /\/gemini\s+ignore/i, /<!--\s*gemini-ignore\s*-->/i
IGNORE_PATTERNS ==
    << [kind |-> "words", first |-> "@gemini", ignoreCase |-> TRUE, global |-> FALSE],
       [kind |-> "words", first |-> "/gemini", ignoreCase |-> TRUE, global |-> FALSE],
       [kind |-> "comment", first |-> "<!--", ignoreCase |-> TRUE, global |-> FALSE] >>

Fold(pattern, t) == IF pattern.ignoreCase THEN ToLowerCase(t) ELSE t

AllSpace(text, from, to) == \A k \in from..to : IsSpace(text[k])

\* where a match of the pattern that starts at token i ends
MatchEnds(pattern, text, i) ==
    IF Fold(pattern, text[i]) # pattern.first THEN {}
    ELSE IF pattern.kind = "words"
        THEN {j \in (i + 2)..Len(text) :
                 Fold(pattern, text[j]) = "ignore" /\ AllSpace(text, i + 1, j - 1)}
    ELSE {j \in (i + 2)..Len(text) :
             /\ text[j] = "-->"
             /\ \E m \in (i + 1)..(j - 1) :
                   /\ Fold(pattern, text[m]) = "gemini-ignore"
                   /\ AllSpace(text, i + 1, m - 1)
                   /\ AllSpace(text, m + 1, j - 1)}

\* the end of the leftmost match that starts at token `from` or later; 0: none
FirstMatchEnd(pattern, text, from) ==
    LET starts == {i \in from..Len(text) : MatchEnds(pattern, text, i) # {}}
    IN  IF starts = {} THEN 0
        ELSE CHOOSE j \in MatchEnds(pattern, text, CHOOSE i \in starts : \A k \in starts : i <= k) :
                 TRUE

\* RegExp.prototype.test: a pattern with the g flag searches from its
\* lastIndex and moves it; any other pattern searches from the start
RegExpTest(pattern, text, lastIndex) ==
    IF pattern.global
    THEN LET e == FirstMatchEnd(pattern, text, lastIndex + 1)
         IN  [found |-> e # 0, lastIndex |-> e]
    ELSE [found |-> FirstMatchEnd(pattern, text, 1) # 0, lastIndex |-> lastIndex]

\* IGNORE_PATTERNS.some(...) from pattern k on; li: the lastIndex of each pattern
RECURSIVE SomePattern(_, _, _)
SomePattern(text, li, k) ==
    IF k > Len(IGNORE_PATTERNS) THEN [found |-> FALSE, lastIndex |-> li]
    ELSE LET r == RegExpTest(IGNORE_PATTERNS[k], text, li[k])
             li2 == [li EXCEPT ![k] = r.lastIndex]
         IN  IF r.found THEN [found |-> TRUE, lastIndex |-> li2]
             ELSE SomePattern(text, li2, k + 1)

matchesIgnoreMarker(text, li) == SomePattern(text, li, 1)

\* the patterns as the module creates them
FreshPatterns == <<0, 0, 0>>

(***************************************************************************)
(* matchesIgnoreMarker on its own.                                         *)
(***************************************************************************)
MaxTextLen == 4

MarkerTokens ==
    {"@gemini", "@Gemini", "/gemini", "ignore", "IGNORE", "gemini-ignore",
     "<!--", "-->", " ", "\n", "x"}

ProbeTexts == UNION {[1..n -> MarkerTokens] : n \in 0..MaxTextLen}

InitMarker ==
    /\ mr = [refs |-> FullRefs, changes |-> ChangesAnchored]
    /\ discussions = <<>>
    /\ ignoredEnv = {}
    /\ calls = [p \in Slots |-> IdleCall]
    /\ \E t \in ProbeTexts :
          probe = [fn |-> "matchesIgnoreMarker", done |-> FALSE, text |-> t,
                   lastIndex |-> FreshPatterns, out |-> FALSE]

ApplyMarker ==
    /\ probe.fn = "matchesIgnoreMarker"
    /\ ~probe.done
    /\ LET r == matchesIgnoreMarker(probe.text, probe.lastIndex) IN
       probe' = [probe EXCEPT !.done = TRUE, !.out = r.found, !.lastIndex = r.lastIndex]
    /\ UNCHANGED <<mr, discussions, ignoredEnv, calls>>

SpecMarker == InitMarker /\ [][ApplyMarker]_vars

MarkerDone == probe.fn = "matchesIgnoreMarker" /\ probe.done

LowerCased(t) == IF t = "@Gemini" THEN "@gemini" ELSE IF t = "IGNORE" THEN "ignore" ELSE t

\* the text contains `word`, one space and 'ignore', in any letter case
ContainsWords(text, word) ==
    \E i \in DOMAIN text :
        /\ i + 2 <= Len(text)
        /\ LowerCased(text[i]) = word
        /\ text[i + 1] = " "
        /\ LowerCased(text[i + 2]) = "ignore"

\* the text contains an HTML comment with 'gemini-ignore' somewhere in it
ContainsCommentWith(text) ==
    \E i, m, j \in DOMAIN text :
        /\ i < m /\ m < j
        /\ text[i] = "<!--"
        /\ text[m] = "gemini-ignore"
        /\ text[j] = "-->"
        /\ \A k \in (i + 1)..(j - 1) : text[k] # "-->"

\* C15 as claimed: matchesIgnoreMarker is true exactly for the texts that
\* contain '@gemini ignore', '/gemini ignore' or an HTML comment containing
\* 'gemini-ignore', in any letter case.
C15_MarkerTokensAnywhere ==
    MarkerDone =>
        (probe.out <=> \/ ContainsWords(probe.text, "@gemini")
                       \/ ContainsWords(probe.text, "/gemini")
                       \/ ContainsCommentWith(probe.text))

\* `word`, then one or more whitespace characters, then 'ignore'
ContainsWordsSpaced(text, word) ==
    \E i, j \in DOMAIN text :
        /\ i + 1 < j
        /\ LowerCased(text[i]) = word
        /\ LowerCased(text[j]) = "ignore"
        /\ \A k \in (i + 1)..(j - 1) : text[k] \in {" ", "\n"}

\* '<!--', 'gemini-ignore', '-->' with nothing but whitespace between them
ContainsBareComment(text) ==
    \E i, m, j \in DOMAIN text :
        /\ i < m /\ m < j
        /\ text[i] = "<!--"
        /\ text[m] = "gemini-ignore"
        /\ text[j] = "-->"
        /\ \A k \in ((i + 1)..(j - 1)) \ {m} : text[k] \in {" ", "\n"}

\* C15, amended: matchesIgnoreMarker is true exactly for the texts that
\* contain, in any letter case and with any text before or after,
\* '@gemini' or '/gemini' followed by one or more whitespace characters and
\* 'ignore', or an HTML comment that holds 'gemini-ignore' and nothing else
\* but whitespace.
C15_MarkerPatterns ==
    MarkerDone =>
        (probe.out <=> \/ ContainsWordsSpaced(probe.text, "@gemini")
                       \/ ContainsWordsSpaced(probe.text, "/gemini")
                       \/ ContainsBareComment(probe.text))

\* 'x@Gemini IGNOREx' matches
C15_Witness ==
    /\ MarkerDone
    /\ probe.text = <<"x", "@Gemini", " ", "IGNORE">>
    /\ probe.out

(***************************************************************************)
(* build-mr-context.js: summarizeDiscussions.  A value that may be absent, *)
(* null or of another type is a record with a flag saying so.  Notes carry *)
(* no position and are not system notes; a summary line is kept as the     *)
(* discussion id and its flags.                                            *)
(***************************************************************************)
NoteWith(body) == [isNull |-> FALSE, hasBody |-> TRUE, body |-> body]
NoBodyNote == [isNull |-> FALSE, hasBody |-> FALSE, body |-> <<>>]
NullNote == [isNull |-> TRUE, hasBody |-> FALSE, body |-> <<>>]

MarkerNote == NoteWith(<<"x", "@gemini", " ", "ignore">>)
CommentNote == NoteWith(<<"<!--", "gemini-ignore", "-->">>)
PlainNote == NoteWith(<<"ignore", " ", "x">>)

Thread(notes) == [isNull |-> FALSE, hasNotes |-> TRUE, notes |-> notes]
NoNotesArray == [isNull |-> FALSE, hasNotes |-> FALSE, notes |-> <<>>]
NullDiscussion == [isNull |-> TRUE, hasNotes |-> FALSE, notes |-> <<>>]

NotAnArray == [isArray |-> FALSE, items |-> <<>>]
ArrayOf(items) == [isArray |-> TRUE, items |-> items]

\* note.body || ""
BodyOrEmpty(note) == IF note.hasBody THEN note.body ELSE <<>>

\* notes.some(note => matchesIgnoreMarker(note.body || "")) from note k on
RECURSIVE NotesSome(_, _, _)
NotesSome(notes, li, k) ==
    IF k > Len(notes) THEN [found |-> FALSE, threw |-> FALSE, lastIndex |-> li]
    ELSE IF notes[k].isNull THEN [found |-> FALSE, threw |-> TRUE, lastIndex |-> li]
    ELSE LET r == matchesIgnoreMarker(BodyOrEmpty(notes[k]), li)
         IN  IF r.found THEN [found |-> TRUE, threw |-> FALSE, lastIndex |-> r.lastIndex]
             ELSE NotesSome(notes, r.lastIndex, k + 1)

\* [...notes].reverse().find(note => !note.system && typeof note.body ===
\* "string") from note k down: reading a field of a null note throws
RECURSIVE LatestThrows(_, _)
LatestThrows(notes, k) ==
    IF k < 1 THEN FALSE
    ELSE IF notes[k].isNull THEN TRUE
    ELSE IF notes[k].hasBody THEN FALSE
    ELSE LatestThrows(notes, k - 1)

\* notes.find(note => note.position): no note has a position, so every note
\* is read
AnchorThrows(notes) == \E k \in DOMAIN notes : notes[k].isNull

\* the loop of summarizeDiscussions from item k on
RECURSIVE SummarizeFrom(_, _, _)
SummarizeFrom(items, k, acc) ==
    IF k > Len(items) THEN acc
    ELSE IF items[k].isNull THEN [acc EXCEPT !.threw = TRUE]
    ELSE LET notes == IF items[k].hasNotes THEN items[k].notes ELSE <<>> IN
         IF Len(notes) = 0 THEN SummarizeFrom(items, k + 1, acc)
         ELSE LET some == NotesSome(notes, acc.lastIndex, 1) IN
              IF some.threw \/ LatestThrows(notes, Len(notes)) \/ AnchorThrows(notes)
              THEN [acc EXCEPT !.threw = TRUE, !.lastIndex = some.lastIndex]
              ELSE SummarizeFrom(items, k + 1,
                       [acc EXCEPT
                           !.ignored = IF some.found /\ \A n \in DOMAIN @ : @[n] # items[k].id
                                       THEN Append(@, items[k].id) ELSE @,
                           !.summaries = Append(@, [id |-> items[k].id,
                                                    flags |-> IF some.found THEN <<"ignored">>
                                                              ELSE <<>>]),
                           !.lastIndex = some.lastIndex])

\* rawDiscussions.slice(0, MAX_DISCUSSIONS)
Slice(items, maxDiscussions) ==
    SubSeq(items, 1, IF maxDiscussions < Len(items) THEN maxDiscussions ELSE Len(items))

\* maxDiscussions: MAX_DISCUSSIONS as read from the environment; li: the
\* lastIndex of the ignore patterns when the call starts
summarizeDiscussions(rawDiscussions, maxDiscussions, li) ==
    IF ~rawDiscussions.isArray \/ Len(rawDiscussions.items) = 0
    THEN [threw |-> FALSE, context |-> "No existing discussions found.",
          summaries |-> <<>>, ignored |-> <<>>, lastIndex |-> li]
    ELSE LET r == SummarizeFrom(Slice(rawDiscussions.items, maxDiscussions), 1,
                      [threw |-> FALSE, context |-> "", summaries |-> <<>>,
                       ignored |-> <<>>, lastIndex |-> li])
         IN  IF r.threw THEN r
             ELSE [r EXCEPT !.context =
                      IF Len(r.summaries) > 0 THEN "summaries"
                      ELSE "Existing discussions could not be summarized."]

(***************************************************************************)
(* summarizeDiscussions on its own: one call on a list of discussions.     *)
(***************************************************************************)
MaxSummaryLen == 3
MaxCap == 2

DiscussionShapes ==
    {NullDiscussion, NoNotesArray}
    \cup {Thread(n) : n \in {<<>>, <<MarkerNote>>, <<PlainNote>>, <<NoBodyNote>>,
                             <<NullNote>>, <<PlainNote, CommentNote>>,
                             <<MarkerNote, NullNote>>, <<NoBodyNote, PlainNote>>}}

\* the discussion at place i has id 'd<i>'
WithIds(shapes) ==
    [i \in DOMAIN shapes |->
        [isNull |-> shapes[i].isNull, hasNotes |-> shapes[i].hasNotes,
         notes |-> shapes[i].notes, id |-> "d" \o ToString(i)]]

\* a value that is no array, and the arrays of up to `len` discussions
RawListsUpTo(len) ==
    {NotAnArray}
    \cup {ArrayOf(WithIds(sh)) :
             sh \in UNION {[1..n -> DiscussionShapes] : n \in 0..len}}

RawDiscussions == RawListsUpTo(MaxSummaryLen)

InitSummary ==
    /\ mr = [refs |-> FullRefs, changes |-> ChangesAnchored]
    /\ discussions = <<>>
    /\ ignoredEnv = {}
    /\ calls = [p \in Slots |-> IdleCall]
    /\ \E raw \in RawDiscussions, cap \in 1..MaxCap :
          probe = [fn |-> "summarizeDiscussions", done |-> FALSE,
                   rawDiscussions |-> raw, maxDiscussions |-> cap,
                   out |-> [threw |-> FALSE, context |-> "", summaries |-> <<>>,
                            ignored |-> <<>>, lastIndex |-> FreshPatterns]]

ApplySummary ==
    /\ probe.fn = "summarizeDiscussions"
    /\ ~probe.done
    /\ probe' = [probe EXCEPT
                    !.done = TRUE,
                    !.out = summarizeDiscussions(probe.rawDiscussions,
                                probe.maxDiscussions, probe.out.lastIndex)]
    /\ UNCHANGED <<mr, discussions, ignoredEnv, calls>>

SpecSummary == InitSummary /\ [][ApplySummary]_vars

SummaryDone == probe.fn = "summarizeDiscussions" /\ probe.done

SummaryItems == probe.rawDiscussions.items

\* some note of the discussion has a body that matches an ignore marker
HasMarkerNote(d) ==
    /\ ~d.isNull
    /\ d.hasNotes
    /\ \E k \in DOMAIN d.notes :
          /\ ~d.notes[k].isNull
          /\ d.notes[k].hasBody
          /\ matchesIgnoreMarker(d.notes[k].body, FreshPatterns).found

IgnoredIds == {probe.out.ignored[n] : n \in DOMAIN probe.out.ignored}

SummarizedIds == {probe.out.summaries[n].id : n \in DOMAIN probe.out.summaries}

\* C16: the ignored list returned by summarizeDiscussions holds a
\* discussion's id exactly when some note of the discussion, at any place
\* in the thread, has a body that matches an ignore marker, and holds no id
\* twice.
C16_IgnoredExactlyMarkedDiscussions ==
    (SummaryDone /\ ~probe.out.threw) =>
        /\ \A i \in DOMAIN SummaryItems :
              ~SummaryItems[i].isNull =>
                  (SummaryItems[i].id \in IgnoredIds <=> HasMarkerNote(SummaryItems[i]))
        /\ \A a, b \in DOMAIN probe.out.ignored :
              probe.out.ignored[a] = probe.out.ignored[b] => a = b

\* C17: a discussion beyond the cap is left out of the context, and when
\* one of its notes carries an ignore marker its id is in the ignored list.
C17_BeyondCapStillScanned ==
    (SummaryDone /\ ~probe.out.threw) =>
        \A i \in DOMAIN SummaryItems :
            i > probe.maxDiscussions =>
                /\ SummaryItems[i].id \notin SummarizedIds
                /\ HasMarkerNote(SummaryItems[i]) => SummaryItems[i].id \in IgnoredIds

\* C18: summarizeDiscussions never throws: a value that is no array, a
\* discussion that is null or has no notes array and a note that is null or
\* has no body count as no match, and the well-formed discussions (within
\* the cap) that carry a marker are still listed.
C18_MalformedInputNeverThrows ==
    SummaryDone =>
        /\ ~probe.out.threw
        /\ \A i \in DOMAIN SummaryItems :
              (i <= probe.maxDiscussions /\ HasMarkerNote(SummaryItems[i]))
                  => SummaryItems[i].id \in IgnoredIds

(***************************************************************************)
(* summarizeDiscussions called several times in one process: what lasts    *)
(* from one call to the next is the lastIndex of the ignore patterns.      *)
(***************************************************************************)
MaxSummaryCalls == 3

RepeatInputs == RawListsUpTo(1)

InitRepeat ==
    /\ mr = [refs |-> FullRefs, changes |-> ChangesAnchored]
    /\ discussions = <<>>
    /\ ignoredEnv = {}
    /\ calls = [p \in Slots |-> IdleCall]
    /\ \E cap \in 1..MaxCap :
          probe = [fn |-> "repeat", maxDiscussions |-> cap,
                   lastIndex |-> FreshPatterns, history |-> <<>>]

\* one call and what it leaves behind
Called(pr, raw, out) ==
    [pr EXCEPT !.lastIndex = out.lastIndex,
               !.history = Append(@, [rawDiscussions |-> raw, out |-> out])]

CallSummary ==
    /\ probe.fn = "repeat"
    /\ Len(probe.history) < MaxSummaryCalls
    /\ \E raw \in RepeatInputs :
          probe' = Called(probe, raw,
                       summarizeDiscussions(raw, probe.maxDiscussions, probe.lastIndex))
    /\ UNCHANGED <<mr, discussions, ignoredEnv, calls>>

SpecRepeat == InitRepeat /\ [][CallSummary]_vars

\* what a call hands back to its caller
Returned(out) ==
    [threw |-> out.threw, context |-> out.context, summaries |-> out.summaries,
     ignored |-> out.ignored]

\* C19: summarizeDiscussions([]) returns 'No existing discussions found.'
\* and an empty ignored list on every call, whatever was called before, and
\* two calls with the same input return equal results.
C19_NoStateBetweenCalls ==
    probe.fn = "repeat" =>
        /\ \A a \in DOMAIN probe.history :
              probe.history[a].rawDiscussions = ArrayOf(<<>>) =>
                  /\ ~probe.history[a].out.threw
                  /\ probe.history[a].out.context = "No existing discussions found."
                  /\ probe.history[a].out.ignored = <<>>
        /\ \A a, b \in DOMAIN probe.history :
              probe.history[a].rawDiscussions = probe.history[b].rawDiscussions =>
                  Returned(probe.history[a].out) = Returned(probe.history[b].out)

\* a thread with a marker, then [], then the same thread again
C19_Witness ==
    /\ probe.fn = "repeat"
    /\ Len(probe.history) = 3
    /\ probe.history[1].rawDiscussions = ArrayOf(WithIds(<<Thread(<<MarkerNote>>)>>))
    /\ probe.history[1].out.ignored = <<"d1">>
    /\ probe.history[2].rawDiscussions = ArrayOf(<<>>)
    /\ probe.history[2].out.context = "No existing discussions found."
    /\ probe.history[3].rawDiscussions = probe.history[1].rawDiscussions
    /\ probe.history[3].out.ignored = <<"d1">>

(***************************************************************************)
(* build-mr-context.js: main.  One run of the script: the environment is   *)
(* read, the discussions are requested, and the two export lines are       *)
(* written to stdout.  An export line is kept as its name and the value    *)
(* before shell quoting.                                                   *)
(***************************************************************************)
ContextValue(text, summaries) == [text |-> text, summaries |-> summaries]

exportLine(name, value) == [name |-> name, value |-> value]

\* one write of both lines
outputExports(stdout, context, ignoredList) ==
    stdout \o << exportLine("EXISTING_FEEDBACK_CONTEXT", context),
                 exportLine("IGNORED_DISCUSSIONS", JsonStringify(ignoredList)) >>

outputFallback(stdout) ==
    outputExports(stdout, ContextValue("Existing discussions unavailable.", <<>>), <<>>)

\* main without its catch block
MainCaught_escapes(pr) == [pr EXCEPT !.pc = "done", !.escaped = TRUE]

\* catch (error) { console.error(...); outputFallback(); }
MainCaught(pr) ==
    [pr EXCEPT !.pc = "done",
               !.stderr = Append(@, "Failed to build MR context"),
               !.stdout = outputFallback(@)]

MainEnv == [CI_PROJECT_ID : BOOLEAN, CI_MERGE_REQUEST_IID : BOOLEAN, GITLAB_REVIEW_PAT : BOOLEAN]

EnvComplete(env) == env.CI_PROJECT_ID /\ env.CI_MERGE_REQUEST_IID /\ env.GITLAB_REVIEW_PAT

\* what the discussions request can answer with
MainResponses == RawListsUpTo(2)

InitMain ==
    /\ mr = [refs |-> FullRefs, changes |-> ChangesAnchored]
    /\ discussions = <<>>
    /\ ignoredEnv = {}
    /\ calls = [p \in Slots |-> IdleCall]
    /\ \E env \in MainEnv, cap \in 1..MaxCap :
          probe = [fn |-> "main", pc |-> "start", env |-> env, maxDiscussions |-> cap,
                   outcome |-> Ok, rawDiscussions |-> NotAnArray,
                   stdout |-> <<>>, stderr |-> <<>>, escaped |-> FALSE]

\* the check of the environment, up to the await of the request
MainStart ==
    /\ probe.fn = "main"
    /\ probe.pc = "start"
    /\ probe' = IF ~EnvComplete(probe.env)
                THEN [probe EXCEPT !.pc = "done",
                                   !.stderr = Append(@, "Missing required env vars"),
                                   !.stdout = outputFallback(@)]
                ELSE [probe EXCEPT !.pc = "request"]
    /\ UNCHANGED <<mr, discussions, ignoredEnv, calls>>

\* const { context, ignored } = summarizeDiscussions(discussions);
\* outputExports(context, ignored), inside the try
Summarized(pr, r) ==
    IF r.threw THEN MainCaught(pr)
    ELSE [pr EXCEPT !.pc = "done",
                    !.stdout = outputExports(@, ContextValue(r.context, r.summaries),
                                             r.ignored)]

\* gitlabRequest settles: it throws, or main goes on with the parsed body
MainResponse ==
    /\ probe.fn = "main"
    /\ probe.pc = "request"
    /\ \E o \in Outcomes, raw \in MainResponses :
          /\ o # Ok => raw = NotAnArray
          /\ probe' = IF o # Ok
                      THEN MainCaught([probe EXCEPT !.outcome = o, !.rawDiscussions = raw])
                      ELSE Summarized([probe EXCEPT !.outcome = o, !.rawDiscussions = raw],
                               summarizeDiscussions(raw, probe.maxDiscussions, FreshPatterns))
    /\ UNCHANGED <<mr, discussions, ignoredEnv, calls>>

MainStep == MainStart \/ MainResponse

SpecMain == InitMain /\ [][MainStep]_vars

MainDone == probe.fn = "main" /\ probe.pc = "done"

\* the run met one of the failures of the claim
MainFailed ==
    \/ ~EnvComplete(probe.env)
    \/ probe.outcome # Ok
    \/ summarizeDiscussions(probe.rawDiscussions, probe.maxDiscussions, FreshPatterns).threw

\* C20: main never lets a failure escape: with a required variable
\* missing, a request that throws or answers non-2xx, or a summarization
\* that throws, the run ends normally with the context 'Existing
\* discussions unavailable.' and the ignored list '[]'; every run writes
\* exactly one EXISTING_FEEDBACK_CONTEXT/IGNORED_DISCUSSIONS pair.
C20_MainAlwaysEmitsOnePair ==
    probe.fn = "main" =>
        /\ ~probe.escaped
        /\ ~MainDone => (probe.stdout = <<>> /\ ENABLED MainStep)
        /\ MainDone =>
              /\ Len(probe.stdout) = 2
              /\ probe.stdout[1].name = "EXISTING_FEEDBACK_CONTEXT"
              /\ probe.stdout[2].name = "IGNORED_DISCUSSIONS"
              /\ MainFailed =>
                    /\ probe.stdout[1].value =
                           ContextValue("Existing discussions unavailable.", <<>>)
                    /\ probe.stdout[2].value = <<"[", "]">>

\* the request succeeds and the summarization throws on a null discussion
\* that follows a thread with a marker
C20_Witness ==
    /\ MainDone
    /\ EnvComplete(probe.env)
    /\ probe.outcome = Ok
    /\ probe.rawDiscussions = ArrayOf(WithIds(<<Thread(<<MarkerNote>>), NullDiscussion>>))
    /\ probe.maxDiscussions = 2
    /\ probe.stdout[1].value.text = "Existing discussions unavailable."
    /\ probe.stdout[2].value = <<"[", "]">>

(***************************************************************************)
(* The token header of the outbound requests.  The repository holds two    *)
(* copies of the server: src/unnamed/part_002 and the shorter              *)
(* src/unnamed/part_000; they share gitlabApi and differ in get_job_log.   *)
(***************************************************************************)
MaxRequests == 3

Servers == {"part_000", "part_002"}

\* process.env.GITLAB_TOKEN_HEADER; "" when unset
TokenHeaderEnv == {"", "JOB-TOKEN", "PRIVATE-TOKEN", "Authorization", "job-token"}

\* process.env.GITLAB_TOKEN_HEADER || "Authorization"
GITLAB_TOKEN_HEADER(env) == IF env = "" THEN "Authorization" ELSE env

\* the authHeaders of gitlabApi and of get_job_log in part_002
authHeaders(tokenHeader) ==
    IF tokenHeader = "JOB-TOKEN" THEN {[name |-> "JOB-TOKEN", value |-> "token"]}
    ELSE IF tokenHeader = "PRIVATE-TOKEN"
        THEN {[name |-> "PRIVATE-TOKEN", value |-> "token"]}
    ELSE {[name |-> "Authorization", value |-> "Bearer token"]}

\* the headers of the fetch in get_job_log
JobLogHeaders(server, tokenHeader) ==
    IF server = "part_000" THEN {[name |-> "Authorization", value |-> "Bearer token"]}
    ELSE authHeaders(tokenHeader)

\* one tool through gitlabApi for each method, and the raw-text fetch
AuthTools ==
    {"get_merge_request", "discussion_add_note", "create_or_update_file", "get_job_log"}

\* the headers of the request of a tool; no caller passes options.headers
RequestHeaders(server, tokenHeader, tool) ==
    IF tool = "get_job_log" THEN JobLogHeaders(server, tokenHeader)
    ELSE authHeaders(tokenHeader) \cup {[name |-> "Content-Type", value |-> "application/json"]}

InitAuth ==
    /\ mr = [refs |-> FullRefs, changes |-> ChangesAnchored]
    /\ discussions = <<>>
    /\ ignoredEnv = {}
    /\ calls = [p \in Slots |-> IdleCall]
    /\ \E server \in Servers, env \in TokenHeaderEnv :
          probe = [fn |-> "auth", server |-> server, env |-> env, sent |-> <<>>]

SendRequest ==
    /\ probe.fn = "auth"
    /\ Len(probe.sent) < MaxRequests
    /\ \E tool \in AuthTools :
          probe' = [probe EXCEPT !.sent = Append(@,
                       [tool |-> tool,
                        headers |-> RequestHeaders(probe.server,
                                        GITLAB_TOKEN_HEADER(probe.env), tool)])]
    /\ UNCHANGED <<mr, discussions, ignoredEnv, calls>>

SpecAuth == InitAuth /\ [][SendRequest]_vars

\* the headers of a request that hold the token
TokenHeaders(request) == {h \in request.headers : h.name # "Content-Type"}

\* the one header the configured strategy asks for
SelectedHeader(env) ==
    IF env = "JOB-TOKEN" THEN [name |-> "JOB-TOKEN", value |-> "token"]
    ELSE IF env = "PRIVATE-TOKEN" THEN [name |-> "PRIVATE-TOKEN", value |-> "token"]
    ELSE [name |-> "Authorization", value |-> "Bearer token"]

\* C21: every outbound request of the server, the raw-text job-log fetch
\* included, carries the token in exactly the one header selected by
\* GITLAB_TOKEN_HEADER, the same for all requests of the process.
C21_TokenHeaderUniform ==
    probe.fn = "auth" =>
        \A n \in DOMAIN probe.sent :
            TokenHeaders(probe.sent[n]) = {SelectedHeader(probe.env)}

(***************************************************************************)
(* The log lines of one CallTool invocation.  A text is a sequence of      *)
(* characters; the secret is the file content or note body the call        *)
(* carries or gets back.                                                   *)
(***************************************************************************)
MaxSecretLen == 2
PreviewChars == 120

SecretTexts == UNION {[1..n -> {"s", "t"}] : n \in 1..MaxSecretLen}

LOG_LEVELS == [error |-> 0, warn |-> 1, info |-> 2, debug |-> 3]

\* GITLAB_MCP_LOG_LEVEL: "" when unset, and a name LOG_LEVELS does not know
LogLevelEnv == {"", "error", "warn", "info", "debug", "verbose"}

CURRENT_LOG_LEVEL(env) ==
    LET name == IF env = "" THEN "debug" ELSE env
    IN  IF name \in DOMAIN LOG_LEVELS THEN LOG_LEVELS[name] ELSE LOG_LEVELS.info

\* log(level, ...): the lines after the call
log(lines, current, level, line) ==
    IF LOG_LEVELS[level] > current THEN lines ELSE Append(lines, line)

redactValue(value) == <<"[redacted ", ToString(Len(value)), " chars]">>

sensitiveKeys == {"content", "body", "description", "token"}

\* args: the one argument of the call that holds a text
sanitizeArgs(args) ==
    IF args.key \in sensitiveKeys THEN [args EXCEPT !.value = redactValue(@)] ELSE args

Min(a, b) == IF a < b THEN a ELSE b

\* the summary of a result with one text item
summarizeResult(result) ==
    [isError |-> result.isError, length |-> Len(result.text),
     preview |-> SubSeq(result.text, 1, Min(PreviewChars, Len(result.text)))]

LogTools == {"create_or_update_file", "get_file_contents", "discussion_add_note"}

\* the argument of the call that holds a text
LogArgs(tool, secret) ==
    IF tool = "create_or_update_file" THEN [key |-> "content", value |-> secret]
    ELSE IF tool = "discussion_add_note" THEN [key |-> "body", value |-> secret]
    ELSE [key |-> "file_path", value |-> <<"p">>]

\* where the body starts in the JSON text of a note: GitLab decides
JsonPrefixes == {<<"{", "i", "d">>, [i \in 1..PreviewChars |-> "x"]}

\* the text of the result of executeTool
ResultText(tool, secret, prefix) ==
    IF tool = "get_file_contents" THEN secret
    ELSE IF tool = "discussion_add_note" THEN prefix \o secret \o <<"}">>
    ELSE <<"{", "f", "}">>

InitLog ==
    /\ mr = [refs |-> FullRefs, changes |-> ChangesAnchored]
    /\ discussions = <<>>
    /\ ignoredEnv = {}
    /\ calls = [p \in Slots |-> IdleCall]
    /\ \E env \in LogLevelEnv, tool \in LogTools, secret \in SecretTexts :
          probe = [fn |-> "log", pc |-> "start", env |-> env, tool |-> tool,
                   secret |-> secret, lines |-> <<>>]

\* logToolRequest(name, args)
LogRequest ==
    /\ probe.fn = "log"
    /\ probe.pc = "start"
    /\ probe' = [probe EXCEPT
                    !.pc = "executing",
                    !.lines = log(@, CURRENT_LOG_LEVEL(probe.env), "info",
                                  [kind |-> "request", name |-> probe.tool,
                                   text |-> sanitizeArgs(LogArgs(probe.tool, probe.secret)).value])]
    /\ UNCHANGED <<mr, discussions, ignoredEnv, calls>>

\* executeTool returns: logToolResponse(name, result)
LogResponse ==
    /\ probe.fn = "log"
    /\ probe.pc = "executing"
    /\ \E prefix \in JsonPrefixes :
          probe' = [probe EXCEPT
                       !.pc = "done",
                       !.lines = log(@, CURRENT_LOG_LEVEL(probe.env), "info",
                                     [kind |-> "response", name |-> probe.tool,
                                      text |-> summarizeResult(
                                                  [isError |-> FALSE,
                                                   text |-> ResultText(probe.tool,
                                                                probe.secret, prefix)]).preview])]
    /\ UNCHANGED <<mr, discussions, ignoredEnv, calls>>

\* executeTool throws: logToolError(name, error)
LogError ==
    /\ probe.fn = "log"
    /\ probe.pc = "executing"
    /\ probe' = [probe EXCEPT
                    !.pc = "done",
                    !.lines = log(@, CURRENT_LOG_LEVEL(probe.env), "error",
                                  [kind |-> "error", name |-> probe.tool,
                                   text |-> <<"GitLab API error: 500">>])]
    /\ UNCHANGED <<mr, discussions, ignoredEnv, calls>>

NextLog == LogRequest \/ LogResponse \/ LogError

SpecLog == InitLog /\ [][NextLog]_vars

ContainsText(text, secret) ==
    \E i \in 1..(Len(text) - Len(secret) + 1) :
        SubSeq(text, i, i + Len(secret) - 1) = secret

\* C22: the request and response log lines of a call contain none of the
\* text of the file content or note body the call carries as an argument or
\* gets back from GitLab, at every log level.
C22_LogsHoldNoSecretText ==
    probe.fn = "log" =>
        \A n \in DOMAIN probe.lines : ~ContainsText(probe.lines[n].text, probe.secret)

(***************************************************************************)
(* positionsMatch on its own, over positions that also carry the old side  *)
(* of the diff.                                                            *)
(***************************************************************************)
Paths == {"", "a.js", "b.js"}
Lines == {0, 4, 5}

\* a line on one side and the path of that side
WellFormed(p) ==
    \/ p.new_line # 0 /\ p.new_path # ""
    \/ p.old_line # 0 /\ p.old_path # ""

ProbePositions ==
    {p \in [position_type : {"text", "image"}, base_sha : {"b1"}, start_sha : {"s1"},
            head_sha : {"h1", "h2"}, new_path : Paths, old_path : Paths,
            new_line : Lines, old_line : Lines] : WellFormed(p)}

InitPositions ==
    /\ mr = [refs |-> FullRefs, changes |-> ChangesAnchored]
    /\ discussions = <<>>
    /\ ignoredEnv = {}
    /\ calls = [p \in Slots |-> IdleCall]
    /\ \E a \in ProbePositions, b \in ProbePositions :
          probe = [fn |-> "positionsMatch", done |-> FALSE, a |-> a, b |-> b, out |-> FALSE]

ApplyPositions ==
    /\ probe.fn = "positionsMatch"
    /\ ~probe.done
    /\ probe' = [probe EXCEPT !.done = TRUE, !.out = positionsMatch(probe.a, probe.b)]
    /\ UNCHANGED <<mr, discussions, ignoredEnv, calls>>

SpecPositions == InitPositions /\ [][ApplyPositions]_vars

FileOf(p) == IF p.new_path = "" THEN p.old_path ELSE p.new_path
LineNumberOf(p) == IF p.new_line = 0 THEN p.old_line ELSE p.new_line

\* C23: positionsMatch(a, b) is true exactly when a and b name the same
\* file (new_path, else old_path) and the same line (new_line, else
\* old_line); the SHAs and position_type have no influence.
C23_SameFileAndLine ==
    (probe.fn = "positionsMatch" /\ probe.done) =>
        /\ probe.out <=> (FileOf(probe.a) = FileOf(probe.b)
                          /\ LineNumberOf(probe.a) = LineNumberOf(probe.b))
        /\ \A sha \in {"h1", "h2"}, type \in {"text", "image"} :
              positionsMatch([probe.a EXCEPT !.head_sha = sha, !.position_type = type],
                             probe.b) = probe.out

\* a removed line and an added line of the same file with the same number,
\* under different SHAs
C23_Witness ==
    /\ probe.fn = "positionsMatch" /\ probe.done
    /\ probe.a.new_path = "" /\ probe.a.old_path = "a.js"
    /\ probe.a.new_line = 0 /\ probe.a.old_line = 4
    /\ probe.b.new_path = "a.js" /\ probe.b.new_line = 4
    /\ probe.a.head_sha # probe.b.head_sha
    /\ probe.out

(***************************************************************************)
(* normalizeIssueSignature on its own.  '!' stands for an emoji or a       *)
(* punctuation mark.                                                       *)
(***************************************************************************)
MaxBodyLen == 4

BodyTokens == {"N", "r", "!", " ", "\t", "\n"}

ProbeBodies == UNION {[1..n -> BodyTokens] : n \in 0..MaxBodyLen}

InitSignature ==
    /\ mr = [refs |-> FullRefs, changes |-> ChangesAnchored]
    /\ discussions = <<>>
    /\ ignoredEnv = {}
    /\ calls = [p \in Slots |-> IdleCall]
    /\ \E b \in ProbeBodies :
          probe = [fn |-> "normalizeIssueSignature", done |-> FALSE, body |-> b,
                   out |-> NullSignature]

ApplySignature ==
    /\ probe.fn = "normalizeIssueSignature"
    /\ ~probe.done
    /\ probe' = [probe EXCEPT !.done = TRUE, !.out = normalizeIssueSignature(probe.body)]
    /\ UNCHANGED <<mr, discussions, ignoredEnv, calls>>

SpecSignature == InitSignature /\ [][ApplySignature]_vars

NotSpace(t) == ~IsSpace(t)

\* the characters of a line that are no whitespace, lower-cased
LowerWords(line) ==
    LET w == SelectSeq(line, NotSpace)
    IN  [i \in DOMAIN w |-> IF w[i] = "N" THEN "n" ELSE w[i]]

\* the first line of the body that has a character other than whitespace
FirstTextLine(body) ==
    LET lines == SplitLines(body)
    IN  lines[CHOOSE i \in DOMAIN lines :
                  /\ \E k \in DOMAIN lines[i] : NotSpace(lines[i][k])
                  /\ \A j \in 1..(i - 1) : \A k \in DOMAIN lines[j] : IsSpace(lines[j][k])]

\* whitespace follows the c-th character of the line that is none, and more
\* text follows it
SpaceAfter(line, c) ==
    \E i \in 1..(Len(line) - 1) :
        /\ NotSpace(line[i])
        /\ Len(SelectSeq(SubSeq(line, 1, i), NotSpace)) = c
        /\ IsSpace(line[i + 1])
        /\ \E k \in (i + 1)..Len(line) : NotSpace(line[k])

\* C24: normalizeIssueSignature(body) is null exactly when body has no
\* non-blank line; otherwise it is the first non-blank line, lower-cased,
\* every run of whitespace collapsed to one space, trimmed, emoji and
\* punctuation kept; later lines have no influence, and normalizing the
\* result again returns it unchanged.
C24_FirstLineNormalized ==
    (probe.fn = "normalizeIssueSignature" /\ probe.done) =>
        LET out == probe.out IN
        IF \A i \in DOMAIN probe.body : IsSpace(probe.body[i])
        THEN out = NullSignature
        ELSE /\ out # NullSignature
             /\ SelectSeq(out, NotSpace) = LowerWords(FirstTextLine(probe.body))
             /\ \A i \in DOMAIN out : out[i] \notin {"N", "\t", "\n"}
             /\ out[1] # " " /\ out[Len(out)] # " "
             /\ \A i \in 1..(Len(out) - 1) : ~(out[i] = " " /\ out[i + 1] = " ")
             /\ \A c \in 1..Len(SelectSeq(out, NotSpace)) :
                   SpaceAfter(out, c) <=> SpaceAfter(FirstTextLine(probe.body), c)
             /\ \A later \in {<<"r">>, <<" ", "N", "!">>} :
                   normalizeIssueSignature(probe.body \o <<"\n">> \o later) = out
             /\ normalizeIssueSignature(out) = out

\* ' N\t r!' over two lines: 'n r!'
C24_Witness ==
    /\ probe.fn = "normalizeIssueSignature" /\ probe.done
    /\ probe.body = <<"\n", "N", "\t", "!">>
    /\ probe.out = <<"n", " ", "!">>

(***************************************************************************)
(* installer.js: one run of `init` over the files of the target project.   *)
(* A file is "absent", "old" (what was there before the run) or "new"      *)
(* (written by the run).                                                   *)
(***************************************************************************)
CiFile == ".gitlab-ci.yml"
workflowFiles ==
    {".gitlab/merge-request-review.yml", ".gitlab/issue-triage.yml",
     ".gitlab/manual-invoke.yml"}
ServerFile == "gitlab-mcp-server.js"
InstallFiles == {CiFile, ServerFile} \cup workflowFiles

InitInstall ==
    /\ mr = [refs |-> FullRefs, changes |-> ChangesAnchored]
    /\ discussions = <<>>
    /\ ignoredEnv = {}
    /\ calls = [p \in Slots |-> IdleCall]
    /\ \E force \in BOOLEAN, yes \in BOOLEAN, existing \in SUBSET InstallFiles :
          probe = [fn |-> "install", pc |-> "ci", force |-> force, yes |-> yes,
                   before |-> existing, action |-> "",
                   files |-> [f \in InstallFiles |->
                                 IF f \in existing THEN "old" ELSE "absent"]]

\* handleExistingCIFile: the action for .gitlab-ci.yml; choice is the answer
\* to the prompt
handleExistingCIFile(pr, choice) ==
    IF pr.files[CiFile] = "absent" THEN "create"
    ELSE IF pr.force THEN "overwrite"
    ELSE IF pr.yes THEN "skip"
    ELSE choice

\* step 3 of install
HandleCI ==
    /\ probe.fn = "install"
    /\ probe.pc = "ci"
    /\ \E choice \in {"skip", "overwrite", "cancel"} :
          probe' = IF handleExistingCIFile(probe, choice) = "cancel"
                   THEN [probe EXCEPT !.pc = "cancelled", !.action = "cancel"]
                   ELSE [probe EXCEPT
                            !.pc = "workflows",
                            !.action = handleExistingCIFile(probe, choice),
                            !.files[CiFile] =
                                IF handleExistingCIFile(probe, choice)
                                       \in {"create", "overwrite"}
                                THEN "new" ELSE @]
    /\ UNCHANGED <<mr, discussions, ignoredEnv, calls>>

\* step 4 of install: copyTemplate for each workflow file
CopyWorkflows ==
    /\ probe.fn = "install"
    /\ probe.pc = "workflows"
    /\ probe' = [probe EXCEPT
                    !.pc = "server",
                    !.files = [f \in InstallFiles |->
                                  IF f \in workflowFiles THEN "new" ELSE @[f]]]
    /\ UNCHANGED <<mr, discussions, ignoredEnv, calls>>

\* step 5 of install: copyTemplate for gitlab-mcp-server.js; the later steps
\* write none of these files
CopyServer ==
    /\ probe.fn = "install"
    /\ probe.pc = "server"
    /\ probe' = [probe EXCEPT !.pc = "done", !.files[ServerFile] = "new"]
    /\ UNCHANGED <<mr, discussions, ignoredEnv, calls>>

NextInstall == HandleCI \/ CopyWorkflows \/ CopyServer

SpecInstall == InitInstall /\ [][NextInstall]_vars

\* C25: without --force, a file that existed before the run is unchanged
\* or was replaced after the user chose 'overwrite'; with --yes and without
\* --force an existing .gitlab-ci.yml is unchanged.
C25_NoOverwriteWithoutForce ==
    (probe.fn = "install" /\ ~probe.force) =>
        /\ \A f \in probe.before :
              \/ probe.files[f] = "old"
              \/ f = CiFile /\ ~probe.yes /\ probe.action = "overwrite"
        /\ (probe.yes /\ CiFile \in probe.before) => probe.files[CiFile] = "old"

(***************************************************************************)
(* findFirstAddedLine on diffs with '@@' lines that are no hunk header.    *)
(***************************************************************************)
WellFormedLine(line) == line.k # "badhunk"

\* C26: a line that starts with '@@' and is no hunk header is skipped and
\* leaves the counter as it was: the result is that of the diff without
\* such lines; and a diff without any valid hunk header yields null.
C26_MalformedHeaderSkipped ==
    DiffDone =>
        LET d == SelectSeq(probe.diffText, WellFormedLine)
            added == AddedInHunks(d)
        IN  /\ (\A i \in DOMAIN probe.diffText : probe.diffText[i].k # "hunk")
                   => probe.out = Null
            /\ added = {} => probe.out = Null
            /\ added # {} =>
                  LET j == CHOOSE a \in added : \A b \in added : a <= b
                      h == HunkOf(d, j)
                  IN  probe.out =
                         d[h].ns + Cardinality({i \in (h + 1)..(j - 1) : d[i].k = "ctx"})

\* '@@ -3,2 +3,3 @@', ' context', '@@ broken', '+new' gives 4, counted
\* from the header before the broken one
C26_Witness ==
    /\ DiffDone
    /\ probe.diffText = <<Hunk(3), Ctx, BadHunk, Add>>
    /\ probe.out = 4

(***************************************************************************)
(* The note chosen inside a thread that holds several reusable notes.      *)
(***************************************************************************)
\* the place in its thread of the note that was returned
ProbeReturnedAt(i, j) ==
    /\ probe.discussions[i].id = probe.out.discussionId
    /\ probe.discussions[i].notes[j].id = probe.out.noteId

\* C27: when a thread holds several notes at the target position that are
\* the acting identity's and of the finding's signature, and
\* selectReusableNote answers with a note of that thread, the note is the
\* last of them in thread order: no reusable note stands after it.
C27_MostRecentReusableNote ==
    ProbeDone =>
        \A i \in DOMAIN probe.discussions :
            \A j \in DOMAIN probe.discussions[i].notes :
                (probe.out.kind = "reuse" /\ ProbeReturnedAt(i, j))
                => /\ ProbeReusable(i, j)
                   /\ \A k \in DOMAIN probe.discussions[i].notes :
                         ProbeReusable(i, k) => k <= j

\* a thread of two reusable notes whose bodies differ, the second returned
C27_Witness ==
    /\ ProbeDone
    /\ probe.out.kind = "reuse"
    /\ \E i \in DOMAIN probe.discussions :
          /\ Len(probe.discussions[i].notes) = 2
          /\ ProbeReusable(i, 1)
          /\ ProbeReusable(i, 2)
          /\ probe.discussions[i].notes[1].body # probe.discussions[i].notes[2].body
          /\ ProbeReturnedAt(i, 2)

(***************************************************************************)
(* Two invocations in flight together.  The CallTool handler is an async   *)
(* function: it gives up control at every await of executeTool, and        *)
(* nothing in it waits for an earlier invocation, so a second request may  *)
(* be dispatched, by the same process or by the server of another job,     *)
(* while the first one awaits GitLab.                                      *)
(***************************************************************************)
\* a merge request that can be anchored, with no discussion yet
InitConcurrent ==
    /\ mr = [refs |-> FullRefs, changes |-> ChangesAnchored]
    /\ discussions = <<>>
    /\ ignoredEnv = {}
    /\ calls = [p \in Slots |-> IdleCall]
    /\ probe = NoProbe

\* the review agent reports the finding BodyA, once more on every call
StartConcurrentCall(p) ==
    /\ NoteCount(discussions) < MaxNotes
    /\ FreeSlot(p)
    /\ calls' = [calls EXCEPT ![p] =
                    Dispatch(calls[p], "create_anchored_discussion_auto",
                             [SomeArgs EXCEPT !.body = BodyA])]
    /\ UNCHANGED <<mr, discussions, ignoredEnv, probe>>

NextConcurrent ==
    \/ \E p \in Slots : StartConcurrentCall(p)
    \/ \E p \in Slots : AutoGetMr(p)
    \/ \E p \in Slots : AutoGetChanges(p)
    \/ \E p \in Slots : AutoCreate(p)
    \/ \E p \in Slots : AutoFallbackNote(p)
    \/ \E p \in Slots : ReturnResult(p)

SpecConcurrent == InitConcurrent /\ [][NextConcurrent]_vars

\* both invocations are of the auto tool, for one finding
SameFinding(c, d) ==
    /\ c.name = "create_anchored_discussion_auto"
    /\ d.name = "create_anchored_discussion_auto"
    /\ c.args.present /\ d.args.present
    /\ c.args.body = d.args.body

\* the invocation has read the merge request and its changes and decided
\* to create; its create-discussion request is not sent yet
AboutToCreate(c) == c.pc = "auto_create"

LastSent(c) == c.sent[Len(c.sent)]

\* the invocation returned the discussion its create request made
ReturnedCreated(c) ==
    /\ c.pc = "done"
    /\ ~c.result.isError
    /\ c.sent # <<>>
    /\ LastSent(c).path = "/merge_requests/:iid/discussions"
    /\ LastSent(c).outcome.kind = "ok"

CreatedId(c) == c.result.content[1].text.json.value[1].id

\* the threads on GitLab that open with the finding at the position
ThreadsOf(ds, body, position) ==
    {i \in DOMAIN ds : ds[i].notes[1].body = body /\ ds[i].notes[1].position = position}

MaxFiles == 2

AnchorFiles ==
    { [new_path |-> "a.js", diff |-> <<Hunk(1), Ctx, Del>>],
      [new_path |-> "", diff |-> <<Hunk(1), Add>>],
      [new_path |-> "b.js", diff |-> <<Meta, Hunk(3), Ctx, Del, Add, Add>>],
      [new_path |-> "c.js", diff |-> <<Hunk(1), Add, Ctx>>] }

AnchorChanges == UNION {[1..n -> AnchorFiles] : n \in 0..MaxFiles}

InitAnchor ==
    /\ mr \in [refs : {FullRefs, NoStartRefs, NoRefs}, changes : AnchorChanges]
    /\ discussions = <<>>
    /\ ignoredEnv = {}
    /\ calls = [p \in Slots |-> IdleCall]
    /\ probe = NoProbe

\* the review agent posts a finding, one call at a time
StartAnchorCall(p) ==
    /\ \A q \in Slots : calls[q].pc = "idle"
    /\ NoteCount(discussions) < MaxNotes
    /\ FreeSlot(p)
    /\ calls' = [calls EXCEPT ![p] =
                    Dispatch(calls[p], "create_anchored_discussion_auto",
                             [SomeArgs EXCEPT !.body = BodyA])]
    /\ UNCHANGED <<mr, discussions, ignoredEnv, probe>>

\* the environment of the server stays as it was started
NextAnchor ==
    \/ \E p \in Slots : StartAnchorCall(p)
    \/ \E p \in Slots : AutoGetMr(p)
    \/ \E p \in Slots : AutoGetChanges(p)
    \/ \E p \in Slots : AutoCreate(p)
    \/ \E p \in Slots : AutoFallbackNote(p)
    \/ \E p \in Slots : ReturnResult(p)

SpecAnchor == InitAnchor /\ [][NextAnchor]_vars

\* the file has an added line inside a hunk, and a new path
Anchorable(ch) == AddedInHunks(ch.diff) # {} /\ ch.new_path # ""

\* the new-side number of line j of d: the new_start of its hunk plus the
\* context and added lines between the hunk header and the line
NewLineNumber(d, j) ==
    d[HunkOf(d, j)].ns
        + Cardinality({g \in (HunkOf(d, j) + 1)..(j - 1) : d[g].k \in {"ctx", "add"}})

MaxPreviewBody == 4
MaxPreview == 5
DefaultPreview == 220

\* MR_CONTEXT_MAX_PREVIEW: not set, or a number
PreviewEnv ==
    {[set |-> FALSE, value |-> 0]} \cup {[set |-> TRUE, value |-> n] : n \in 0..MaxPreview}

\* Number(process.env.MR_CONTEXT_MAX_PREVIEW || 220)
MAX_NOTE_PREVIEW(env) == IF env.set THEN env.value ELSE DefaultPreview

PreviewTokens == {"a", "*", "_", " ", "\n"}
PreviewBodies == UNION {[1..n -> PreviewTokens] : n \in 0..MaxPreviewBody}

\* the backtick character, as a token
Backtick == "backtick"
MarkdownChars == {Backtick, "\\", "*", "_"}

\* text.replace(/([\\*_])/g, "\\$1"), the backtick being in the class as
\* well: a backslash put before each of them
RECURSIVE escapeMarkdown(_)
escapeMarkdown(text) ==
    IF text = <<>> THEN <<>>
    ELSE (IF Head(text) \in MarkdownChars THEN <<"\\", Head(text)>> ELSE <<Head(text)>>)
            \o escapeMarkdown(Tail(text))

\* body.replace(/\s+/g, " ")
RECURSIVE ReplaceSpaces(_)
ReplaceSpaces(text) ==
    IF text = <<>> THEN <<>>
    ELSE IF IsSpace(Head(text))
        THEN (IF Len(text) > 1 /\ IsSpace(text[2]) THEN ReplaceSpaces(Tail(text))
              ELSE <<" ">> \o ReplaceSpaces(Tail(text)))
    ELSE <<Head(text)>> \o ReplaceSpaces(Tail(text))

\* String.prototype.slice(0, end): a negative end counts from the end
SliceTo(text, end) ==
    LET to == IF end < 0 THEN Len(text) + end ELSE Min(end, Len(text))
    IN  SubSeq(text, 1, IF to < 0 THEN 0 ELSE to)

NoText == <<"_", "n", "o", " ", "t", "e", "x", "t", "_">>
Ellipsis == <<".", ".", ".">>

\* the slice escaped after the cut at the cap, not before it
buildPreview(body, cap) ==
    IF body = <<>> THEN NoText
    ELSE LET normalized == Trim(ReplaceSpaces(body))
         IN  IF Len(normalized) <= cap THEN escapeMarkdown(normalized)
             ELSE escapeMarkdown(SliceTo(normalized, cap - 3)) \o Ellipsis

InitPreview ==
    /\ mr = [refs |-> FullRefs, changes |-> ChangesAnchored]
    /\ discussions = <<>>
    /\ ignoredEnv = {}
    /\ calls = [p \in Slots |-> IdleCall]
    /\ \E body \in PreviewBodies :
       \E env \in PreviewEnv :
          probe = [fn |-> "buildPreview", done |-> FALSE, body |-> body,
                   cap |-> MAX_NOTE_PREVIEW(env), out |-> <<>>]

ApplyPreview ==
    /\ probe.fn = "buildPreview"
    /\ ~probe.done
    /\ probe' = [probe EXCEPT !.done = TRUE, !.out = buildPreview(probe.body, probe.cap)]
    /\ UNCHANGED <<mr, discussions, ignoredEnv, calls>>

SpecPreview == InitPreview /\ [][ApplyPreview]_vars

PreviewDone == probe.fn = "buildPreview" /\ probe.done

EndsWith(text, tail) ==
    Len(text) >= Len(tail) /\ SubSeq(text, Len(text) - Len(tail) + 1, Len(text)) = tail

\* C30: the preview of every body under every cap is at most the cap long;
\* a body whose whitespace-normalized text fits the cap is returned in
\* full with its markdown characters escaped, a longer one is cut and ends
\* with '...'.
C30_PreviewWithinCap ==
    PreviewDone =>
        LET normalized == Trim(ReplaceSpaces(probe.body)) IN
        /\ Len(probe.out) <= probe.cap
        /\ (probe.body # <<>> /\ Len(normalized) <= probe.cap)
              => probe.out = escapeMarkdown(normalized)
        /\ (probe.body # <<>> /\ Len(normalized) > probe.cap)
              => EndsWith(probe.out, Ellipsis)

\* what does hold: the full text or the cut, escaped
C30_FullOrCut ==
    PreviewDone =>
        LET normalized == Trim(ReplaceSpaces(probe.body)) IN
        /\ (probe.body # <<>> /\ Len(normalized) <= probe.cap)
              => probe.out = escapeMarkdown(normalized)
        /\ (probe.body # <<>> /\ Len(normalized) > probe.cap)
              => EndsWith(probe.out, Ellipsis)

\* the length holds for a text without markdown characters under a cap of
\* 3 or more
C30_PlainWithinCap ==
    PreviewDone =>
        ((/\ probe.cap >= 3
          /\ probe.body # <<>>
          /\ \A i \in DOMAIN probe.body : probe.body[i] \notin MarkdownChars)
         => Len(probe.out) <= probe.cap)

====
